---- MODULE Spec2Model ----
(***************************************************************************)
(* Verification model of the recon repository: the FIFO lot ledger         *)
(* (models/lot.py), the P&L aggregator (calculators/pnl_calculator.py),    *)
(* the lot tracking service (services/lot_tracking_service.py), the        *)
(* reconciliation results (models/performance.py,                          *)
(* services/reconciliation_service.py) and the XIRR / TWR solvers          *)
(* (calculators/irr_calculator.py, calculators/twr_calculator.py).         *)
(*                                                                         *)
(* Numbers.  Every Decimal of the source is a rational <<n, d>> in lowest  *)
(* terms with d > 0, and Decimal arithmetic is exact rational arithmetic:  *)
(* the 28-significant-digit rounding of the decimal context and the        *)
(* binary rounding of the float divisions in the solvers are not           *)
(* modelled.  Lot objects are shared by reference between a queue and its  *)
(* disposal log, so a queue keeps its Lot objects in an arena (field lot)  *)
(* and both the deque and the log hold arena indices.                      *)
(***************************************************************************)
EXTENDS Integers, Sequences, FiniteSets, TLC

\* ------------------------------------------------------------------------
\* Bounds of the model
\* ------------------------------------------------------------------------
MaxLots == 3
MaxDisposals == 2
MaxTxns == 3
MaxResults == 2
MaxCashFlows == 3
MaxDailyValues == 3
MaxRuns == 2

\* ------------------------------------------------------------------------
\* Decimal arithmetic (exact rationals)
\* ------------------------------------------------------------------------
Abs(n) == IF n < 0 THEN -n ELSE n

RECURSIVE GCD(_, _)
GCD(a, b) == IF b = 0 THEN a ELSE GCD(b, a % b)

Norm(n, d) ==
  LET s == IF d < 0 THEN -1 ELSE 1
      g == GCD(Abs(n), Abs(d))
  IN  << (s * n) \div g, (s * d) \div g >>

R(n) == << n, 1 >>
Zero == R(0)
One == R(1)
RAdd(a, b) == Norm(a[1] * b[2] + b[1] * a[2], a[2] * b[2])
RSub(a, b) == Norm(a[1] * b[2] - b[1] * a[2], a[2] * b[2])
RMul(a, b) == Norm(a[1] * b[1], a[2] * b[2])
RDiv(a, b) == Norm(a[1] * b[2], a[2] * b[1])
RLt(a, b) == a[1] * b[2] < b[1] * a[2]
RLe(a, b) == a[1] * b[2] <= b[1] * a[2]
RAbs(a) == << Abs(a[1]), a[2] >>
RMin(a, b) == IF RLe(a, b) THEN a ELSE b

RECURSIVE RSumTo(_, _)
RSumTo(s, n) == IF n = 0 THEN Zero ELSE RAdd(RSumTo(s, n - 1), s[n])
\* Python's sum() over a sequence of Decimals
RSum(s) == RSumTo(s, Len(s))

\* the element of a one-element set: Only({ F(v) : v \in {e} }) is F(e) with
\* e computed once, as a local variable of the source is
Only(S) == CHOOSE x \in S : TRUE

\* ------------------------------------------------------------------------
\* Python dicts: a sequence of [key, val] entries in insertion order
\* ------------------------------------------------------------------------
EmptyMap == << >>
Keys(d) == {d[i].key : i \in 1..Len(d)}
Has(d, k) == \E i \in 1..Len(d) : d[i].key = k
At(d, k) == d[CHOOSE i \in 1..Len(d) : d[i].key = k].val
\* dict.get(key, default)
Get(d, k, default) == IF Has(d, k) THEN At(d, k) ELSE default
\* d[k] = v
Put(d, k, v) ==
  IF Has(d, k)
  THEN [i \in 1..Len(d) |-> IF d[i].key = k THEN [key |-> k, val |-> v] ELSE d[i]]
  ELSE Append(d, [key |-> k, val |-> v])

\* ------------------------------------------------------------------------
\* models/lot.py : Lot
\* ------------------------------------------------------------------------
\* Lot(...) followed by __post_init__: remaining_quantity defaults to 0 and
\* is set to the acquisition quantity when that is non-zero.
Lot(symbol, adate, price, quantity, cost, fx) ==
  [ symbol               |-> symbol,
    acquisition_date     |-> adate,
    acquisition_price    |-> price,
    acquisition_quantity |-> quantity,
    acquisition_cost     |-> cost,
    acquisition_fx_rate  |-> fx,
    remaining_quantity   |-> IF quantity # Zero THEN quantity ELSE Zero ]

\* Faulty variant of cost_per_unit: the cost is spread over the quantity
\* the lot still holds
cost_per_unit_of_remaining(lot) ==
  IF lot.remaining_quantity = Zero THEN Zero
  ELSE RDiv(lot.acquisition_cost, lot.remaining_quantity)

cost_per_unit(lot) ==
  IF lot.acquisition_quantity = Zero THEN Zero
  ELSE RDiv(lot.acquisition_cost, lot.acquisition_quantity)

remaining_cost_basis(lot) == RMul(cost_per_unit(lot), lot.remaining_quantity)

\* Faulty variant of is_depleted: a lot with nothing left still counts as
\* held
is_depleted_below_zero(lot) == RLt(lot.remaining_quantity, Zero)

is_depleted(lot) == RLe(lot.remaining_quantity, Zero)

\* Faulty variant of Lot.dispose: the requested quantity is not clamped to
\* what the lot still holds
Lot_dispose_unclamped(lot, quantity, sale_price, sale_fx_rate) ==
  LET proceeds == RMul(RMul(quantity, sale_price), sale_fx_rate)
      basis    == RMul(RMul(cost_per_unit(lot), quantity), lot.acquisition_fx_rate)
  IN  [ qty |-> quantity,
        pnl |-> RSub(proceeds, basis),
        lot |-> [lot EXCEPT !.remaining_quantity = RSub(@, quantity)] ]

\* Lot.dispose: returns (quantity_disposed, realized_pnl) and the mutated lot
Lot_dispose(lot, quantity, sale_price, sale_fx_rate) ==
  LET qty      == IF RLt(lot.remaining_quantity, quantity)
                  THEN lot.remaining_quantity ELSE quantity
      proceeds == RMul(RMul(qty, sale_price), sale_fx_rate)
      basis    == RMul(RMul(cost_per_unit(lot), qty), lot.acquisition_fx_rate)
  IN  [ qty |-> qty,
        pnl |-> RSub(proceeds, basis),
        lot |-> [lot EXCEPT !.remaining_quantity = RSub(@, qty)] ]

\* Faulty variant: values the acquired instead of the remaining quantity
Lot_unrealized_on_acquired(lot, current_price, current_fx_rate) ==
  IF RLe(lot.remaining_quantity, Zero) THEN Zero
  ELSE RSub(RMul(RMul(lot.acquisition_quantity, current_price), current_fx_rate),
            RMul(remaining_cost_basis(lot), lot.acquisition_fx_rate))

Lot_calculate_unrealized_pnl(lot, current_price, current_fx_rate) ==
  IF RLe(lot.remaining_quantity, Zero) THEN Zero
  ELSE RSub(RMul(RMul(lot.remaining_quantity, current_price), current_fx_rate),
            RMul(remaining_cost_basis(lot), lot.acquisition_fx_rate))

\* ------------------------------------------------------------------------
\* models/lot.py : LotQueue
\* ------------------------------------------------------------------------
\* lot: the Lot objects ever added (arena), lots: the deque _lots (arena
\* indices, oldest first), disposed_lots: the log _disposed_lots.
LotQueue_new ==
  [ lot |-> << >>, lots |-> << >>, realized_pnl |-> Zero, disposed_lots |-> << >> ]

SeqMap(Op(_), s) == [i \in 1..Len(s) |-> Op(s[i])]
SelectIdx(q, Keep(_)) == SelectSeq(q.lots, LAMBDA id : Keep(q.lot[id]))

\* the property `lots`: the active lots
active_lots(q) == SelectIdx(q, LAMBDA l : ~is_depleted(l))
total_quantity(q) == RSum([i \in 1..Len(q.lots) |-> q.lot[q.lots[i]].remaining_quantity])
total_cost_basis(q) == RSum([i \in 1..Len(q.lots) |-> remaining_cost_basis(q.lot[q.lots[i]])])
average_cost(q) ==
  IF total_quantity(q) = Zero THEN Zero
  ELSE RDiv(total_cost_basis(q), total_quantity(q))

add_lot(q, lot) ==
  [q EXCEPT !.lot = Append(@, lot), !.lots = Append(@, Len(q.lot) + 1)]

\* The for-loop of dispose_fifo over self._lots, from position i on.
\* st = [lot, disposed_lots, remaining_to_dispose, total_realized_pnl]
RECURSIVE dispose_loop(_, _, _, _)
dispose_loop(ids, i, st, sale) ==
  IF i > Len(ids) \/ RLe(st.remaining_to_dispose, Zero) THEN st
  ELSE IF is_depleted(st.lot[ids[i]]) THEN dispose_loop(ids, i + 1, st, sale)
  ELSE LET d == Lot_dispose(st.lot[ids[i]], st.remaining_to_dispose,
                            sale.price, sale.fx)
       IN  dispose_loop(ids, i + 1,
             [ lot                  |-> [st.lot EXCEPT ![ids[i]] = d.lot],
               disposed_lots        |-> Append(st.disposed_lots,
                                          [ lot  |-> ids[i], qty |-> d.qty,
                                            pnl  |-> d.pnl, date |-> sale.date ]),
               remaining_to_dispose |-> RSub(st.remaining_to_dispose, d.qty),
               total_realized_pnl   |-> RAdd(st.total_realized_pnl, d.pnl) ],
             sale)

\* Faulty variant of the clean-up: drops every lot a disposal has touched
cleanup_touched(q) ==
  [q EXCEPT !.lots = SelectIdx(q, LAMBDA l : l.remaining_quantity = l.acquisition_quantity)]

\* Faulty variant of the clean-up: the deque is left as it is
cleanup_keeps_all(q) == q

\* "Clean up depleted lots": the deque is rebuilt without the depleted lots
cleanup_depleted(q) == [q EXCEPT !.lots = SelectIdx(q, LAMBDA l : ~is_depleted(l))]

Reverse(s) == [i \in 1..Len(s) |-> s[Len(s) + 1 - i]]

\* Faulty variant of dispose_fifo: walks the deque newest-first
dispose_lifo(q, sale) ==
  LET st == dispose_loop(Reverse(q.lots), 1,
              [ lot |-> q.lot, disposed_lots |-> q.disposed_lots,
                remaining_to_dispose |-> sale.quantity,
                total_realized_pnl |-> Zero ], sale)
  IN  [ queue |-> cleanup_depleted(
                    [q EXCEPT !.lot = st.lot,
                              !.disposed_lots = st.disposed_lots,
                              !.realized_pnl = RAdd(@, st.total_realized_pnl)]),
        ret   |-> st.total_realized_pnl ]

\* dispose_fifo: returns the new queue and the returned realized P&L
dispose_fifo(q, sale) ==
  LET st == dispose_loop(q.lots, 1,
              [ lot |-> q.lot, disposed_lots |-> q.disposed_lots,
                remaining_to_dispose |-> sale.quantity,
                total_realized_pnl |-> Zero ], sale)
  IN  [ queue |-> cleanup_depleted(
                    [q EXCEPT !.lot = st.lot,
                              !.disposed_lots = st.disposed_lots,
                              !.realized_pnl = RAdd(@, st.total_realized_pnl)]),
        ret   |-> st.total_realized_pnl ]

LotQueue_calculate_unrealized_pnl(q, current_price, current_fx_rate) ==
  RSum([i \in 1..Len(q.lots) |->
          Lot_calculate_unrealized_pnl(q.lot[q.lots[i]], current_price, current_fx_rate)])

\* get_disposal_history: the log read through the Lot objects as they are now
get_disposal_history(q) ==
  [i \in 1..Len(q.disposed_lots) |->
     LET e == q.disposed_lots[i] IN
     [ lot_id            |-> e.lot,
       acquisition_date  |-> q.lot[e.lot].acquisition_date,
       acquisition_price |-> q.lot[e.lot].acquisition_price,
       quantity_disposed |-> e.qty,
       realized_pnl      |-> e.pnl,
       disposal_date     |-> e.date ]]

\* ------------------------------------------------------------------------
\* models/enums.py, models/transaction.py
\* ------------------------------------------------------------------------
TransactionType_is_buy(t) == t \in {"BUY", "OPTION_BUY", "DEPOSIT", "TRANSFER_IN"}
TransactionType_is_sell(t) == t \in {"SELL", "OPTION_SELL", "WITHDRAWAL", "TRANSFER_OUT"}
TransactionType_is_income(t) == t \in {"DIVIDEND", "INTEREST", "COUPON"}

\* Transaction(...) followed by __post_init__ for a non-fixed-income asset:
\* gross_amount and net_amount are derived because they are left at 0.
Transaction(tdate, ttype, symbol, quantity, price, commission, fx, description) ==
  LET gross == RAbs(RMul(quantity, price))
      net   == IF TransactionType_is_buy(ttype) THEN RAdd(gross, commission)
               ELSE RSub(gross, commission)
  IN  [ transaction_date |-> tdate,
        transaction_type |-> ttype,
        symbol           |-> symbol,
        quantity         |-> quantity,
        price            |-> price,
        commission       |-> commission,
        fx_rate          |-> fx,
        description      |-> description,
        gross_amount     |-> gross,
        net_amount       |-> net ]

total_fees(txn) == txn.commission

\* ------------------------------------------------------------------------
\* String tests of the source, tabulated over the strings of the model
\* ------------------------------------------------------------------------
\* str.upper()
upper(s) ==
  CASE s = "usd" -> "USD"
    [] s = "qqq_opq" -> "QQQ_OPQ"
    [] s = "aapl" -> "AAPL"
    [] s = "eur" -> "EUR"
    [] OTHER -> s

\* PnLCalculator.CASH_SYMBOLS, restricted to the currency codes of the model
CASH_SYMBOLS == {"USD", "EUR"}

\* '_OPQ' in s
contains_OPQ(s) == s \in {"QQQ_OPQ"}
\* "wtax" in symbol.lower(), "tax" / "withhold" in description.lower()
contains_wtax(s) == s \in {"WTAX", "wtax"}
contains_tax(d) == d \in {"withholding tax", "tax"}
contains_withhold(d) == d \in {"withholding tax"}
contains_intpaid(s) == s \in {"INTPAID", "intpaid"}
contains_interest_paid(d) == d \in {"interest paid"}

\* ------------------------------------------------------------------------
\* calculators/pnl_calculator.py : PnLCalculator
\* ------------------------------------------------------------------------
NoIncome ==
  [ gross_dividend |-> Zero, gross_interest |-> Zero, option_premium |-> Zero,
    withholding_tax |-> Zero, interest_expense |-> Zero, other_fees |-> Zero ]

\* lot_queues: the dict _lot_queues,
\* steps: a record of every _process_transaction call (history only)
PnLCalculator_new ==
  [ lot_queues |-> EmptyMap, income |-> NoIncome, steps |-> << >> ]

\* Faulty variant of the cash test: the symbol is compared as written
is_cash_symbol_as_written(symbol) == symbol # "" /\ symbol \in CASH_SYMBOLS

is_cash_symbol(symbol) == symbol # "" /\ upper(symbol) \in CASH_SYMBOLS
is_option_symbol(symbol) == symbol # "" /\ contains_OPQ(upper(symbol))

\* bool(queue): LotQueue defines __len__ as the number of active lots
queue_truthy(q) == Len(active_lots(q)) > 0

process_buy(c, txn) ==
  LET lot == Lot(txn.symbol, txn.transaction_date, txn.price, txn.quantity,
                 txn.net_amount, txn.fx_rate)
  IN  [c EXCEPT !.lot_queues = Put(@, txn.symbol, add_lot(At(@, txn.symbol), lot))]

sale_of(txn) ==
  [ quantity |-> txn.quantity, price |-> txn.price,
    date |-> txn.transaction_date, fx |-> txn.fx_rate ]

process_sell(c, txn) ==
  IF ~queue_truthy(At(c.lot_queues, txn.symbol)) THEN c
  ELSE [c EXCEPT !.lot_queues =
          Put(@, txn.symbol, dispose_fifo(At(@, txn.symbol), sale_of(txn)).queue)]

process_income(c, txn) ==
  IF txn.transaction_type = "DIVIDEND"
  THEN [c EXCEPT !.income.gross_dividend = RAdd(@, txn.net_amount)]
  ELSE IF txn.transaction_type \in {"INTEREST", "COUPON"}
  THEN [c EXCEPT !.income.gross_interest = RAdd(@, txn.net_amount)]
  ELSE c

process_fee(c, txn) ==
  LET amount == IF txn.net_amount # Zero THEN RAbs(txn.net_amount)
                ELSE RAbs(txn.gross_amount)
  IN  IF contains_wtax(txn.symbol) \/ contains_tax(txn.description)
         \/ contains_withhold(txn.description)
      THEN [c EXCEPT !.income.withholding_tax = RAdd(@, amount)]
      ELSE IF contains_intpaid(txn.symbol) \/ contains_interest_paid(txn.description)
      THEN [c EXCEPT !.income.interest_expense = RAdd(@, amount)]
      ELSE [c EXCEPT !.income.other_fees = RAdd(@, amount)]

\* Faulty variant of the premium: the gross amount is booked, fees included
process_option_premium_gross(c, txn) ==
  IF txn.gross_amount # Zero /\ RLt(Zero, txn.gross_amount)
  THEN [c EXCEPT !.income.option_premium = RAdd(@, txn.gross_amount)]
  ELSE c

process_option_premium(c, txn) ==
  IF txn.net_amount # Zero /\ RLt(Zero, txn.net_amount)
  THEN [c EXCEPT !.income.option_premium = RAdd(@, txn.net_amount)]
  ELSE IF txn.gross_amount # Zero /\ RLt(Zero, txn.gross_amount)
  THEN [c EXCEPT !.income.option_premium = RAdd(@, txn.gross_amount)]
  ELSE c

\* Faulty variant of the split adjustment: the acquisition quantity is left
\* as it was
split_lot_keeps_acquired(lot, additional_shares, total_existing_shares, effective_ratio) ==
  LET old_qty        == lot.remaining_quantity
      lot_additional == RMul(additional_shares, RDiv(old_qty, total_existing_shares))
  IN  [lot EXCEPT !.remaining_quantity   = RAdd(old_qty, lot_additional),
                  !.acquisition_price    = RDiv(@, effective_ratio)]

\* Faulty variant of the split adjustment: every lot receives all the new
\* shares instead of its share of them
split_lot_adds_all(lot, additional_shares, total_existing_shares, effective_ratio) ==
  [lot EXCEPT !.remaining_quantity   = RAdd(@, additional_shares),
              !.acquisition_quantity = RMul(@, effective_ratio),
              !.acquisition_price    = RDiv(@, effective_ratio)]

\* The loop body of _process_stock_split over queue._lots
split_lot(lot, additional_shares, total_existing_shares, effective_ratio) ==
  LET old_qty        == lot.remaining_quantity
      lot_additional == RMul(additional_shares, RDiv(old_qty, total_existing_shares))
  IN  [lot EXCEPT !.remaining_quantity   = RAdd(old_qty, lot_additional),
                  !.acquisition_quantity = RMul(@, effective_ratio),
                  !.acquisition_price    = RDiv(@, effective_ratio)]

split_queue(q, additional_shares) ==
  LET total_existing_shares == total_quantity(q)
      effective_ratio == RDiv(RAdd(total_existing_shares, additional_shares),
                              total_existing_shares)
      adjusted == [i \in 1..Len(q.lot) |->
         IF \E k \in 1..Len(q.lots) : q.lots[k] = i
         THEN split_lot(q.lot[i], additional_shares, total_existing_shares,
                        effective_ratio)
         ELSE q.lot[i]]
  IN  [q EXCEPT !.lot = SubSeq(adjusted, 1, Len(q.lot))]

process_stock_split(c, txn) ==
  LET q == At(c.lot_queues, txn.symbol) IN
  IF ~queue_truthy(q) \/ total_quantity(q) = Zero THEN c
  ELSE [c EXCEPT !.lot_queues = Put(@, txn.symbol, split_queue(q, txn.quantity))]

\* _process_transaction without the history record
dispatch(c, txn) ==
  IF TransactionType_is_income(txn.transaction_type) THEN process_income(c, txn)
  ELSE IF txn.transaction_type \in {"FEE", "COMMISSION"} THEN process_fee(c, txn)
  ELSE IF is_cash_symbol(txn.symbol) THEN c
  ELSE LET c1 == IF Has(c.lot_queues, txn.symbol) THEN c
                 ELSE [c EXCEPT !.lot_queues = Put(@, txn.symbol, LotQueue_new)]
       IN  IF TransactionType_is_buy(txn.transaction_type) THEN process_buy(c1, txn)
           ELSE IF TransactionType_is_sell(txn.transaction_type)
           THEN IF is_option_symbol(txn.symbol) /\ txn.net_amount # Zero
                   /\ RLt(Zero, txn.net_amount)
                THEN process_option_premium(c1, txn)
                ELSE process_sell(c1, txn)
           ELSE IF txn.transaction_type = "STOCK_SPLIT" THEN process_stock_split(c1, txn)
           ELSE c1

process_transaction(c, txn) ==
  LET d == dispatch(c, txn)
  IN  [d EXCEPT !.steps = Append(@, [ txn  |-> txn,
                                      pre  |-> c.lot_queues,
                                      post |-> d.lot_queues,
                                      income_pre |-> c.income,
                                      income_post |-> d.income ])]

\* Faulty variant of the sort: a transaction is put before the transactions
\* of its own date (the sort is not stable)
RECURSIVE insert_by_date_before_ties(_, _)
insert_by_date_before_ties(s, t) ==
  IF s = << >> THEN << t >>
  ELSE IF s[Len(s)].transaction_date < t.transaction_date THEN Append(s, t)
  ELSE Append(insert_by_date_before_ties(SubSeq(s, 1, Len(s) - 1), t), s[Len(s)])

\* sorted(transactions, key=lambda t: t.transaction_date): stable
RECURSIVE insert_by_date(_, _)
insert_by_date(s, t) ==
  IF s = << >> THEN << t >>
  ELSE IF s[Len(s)].transaction_date <= t.transaction_date THEN Append(s, t)
  ELSE Append(insert_by_date(SubSeq(s, 1, Len(s) - 1), t), s[Len(s)])

RECURSIVE sorted_by_date(_)
sorted_by_date(s) ==
  IF s = << >> THEN << >>
  ELSE insert_by_date(sorted_by_date(SubSeq(s, 1, Len(s) - 1)), s[Len(s)])

RECURSIVE replay(_, _, _)
replay(c, s, i) ==
  IF i > Len(s) THEN c ELSE replay(process_transaction(c, s[i]), s, i + 1)

PositionPnL(symbol, q) ==
  [ symbol         |-> symbol,
    quantity       |-> total_quantity(q),
    cost_basis     |-> total_cost_basis(q),
    market_value   |-> Zero,
    realized_pnl   |-> q.realized_pnl,
    unrealized_pnl |-> Zero,
    total_pnl      |-> RAdd(q.realized_pnl, Zero),
    average_cost   |-> average_cost(q),
    current_price  |-> Zero ]

\* the sums kept by PortfolioPnL.add_position, over the positions in order
PositionSum(pos, Field(_)) == RSum([i \in 1..Len(pos) |-> Field(pos[i].val)])

build_portfolio_pnl(c) ==
  LET pos == [i \in 1..Len(c.lot_queues) |->
                [ key |-> c.lot_queues[i].key,
                  val |-> PositionPnL(c.lot_queues[i].key, c.lot_queues[i].val) ]]
  IN  [ positions               |-> pos,
        gross_dividend_income   |-> c.income.gross_dividend,
        gross_interest_income   |-> c.income.gross_interest,
        option_premium_received |-> c.income.option_premium,
        withholding_tax         |-> c.income.withholding_tax,
        interest_expense        |-> c.income.interest_expense,
        other_fees              |-> c.income.other_fees,
        realized_capital_gains  |-> PositionSum(pos, LAMBDA p : p.realized_pnl),
        total_unrealized_pnl    |-> PositionSum(pos, LAMBDA p : p.unrealized_pnl),
        total_cost_basis        |-> PositionSum(pos, LAMBDA p : p.cost_basis),
        total_market_value      |-> PositionSum(pos, LAMBDA p : p.market_value) ]

\* process_transactions: the calculator after the replay, and the portfolio
process_transactions(c, transactions) ==
  LET c1 == replay(c, sorted_by_date(transactions), 1)
  IN  [ calc |-> c1, ret |-> build_portfolio_pnl(c1) ]

\* Faulty variant of the valuation: a position without a price is left as
\* it was built
value_position_skips_unpriced(c, p, current_prices, fx_rates) ==
  LET price   == Get(current_prices, p.symbol, Zero)
      fx_rate == Get(fx_rates, p.symbol, One)
      q       == At(c.lot_queues, p.symbol)
      p1      == [p EXCEPT !.current_price = price]
  IN  IF queue_truthy(q) /\ Has(current_prices, p.symbol)
      THEN LET u == LotQueue_calculate_unrealized_pnl(q, price, fx_rate) IN
           [p1 EXCEPT !.unrealized_pnl = u,
                      !.market_value = RMul(RMul(p.quantity, price), fx_rate),
                      !.total_pnl = RAdd(p.realized_pnl, u)]
      ELSE p1

\* Faulty variant of the valuation: the valued position starts again from
\* a realized P&L of zero
value_position_forgets_realized(c, p, current_prices, fx_rates) ==
  LET price   == Get(current_prices, p.symbol, Zero)
      fx_rate == Get(fx_rates, p.symbol, One)
      q       == At(c.lot_queues, p.symbol)
      p1      == [p EXCEPT !.current_price = price, !.realized_pnl = Zero]
  IN  IF queue_truthy(q)
      THEN LET u == LotQueue_calculate_unrealized_pnl(q, price, fx_rate) IN
           [p1 EXCEPT !.unrealized_pnl = u,
                      !.market_value = RMul(RMul(p.quantity, price), fx_rate),
                      !.total_pnl = u]
      ELSE p1

value_position(c, p, current_prices, fx_rates) ==
  LET price   == Get(current_prices, p.symbol, Zero)
      fx_rate == Get(fx_rates, p.symbol, One)
      q       == At(c.lot_queues, p.symbol)
      p1      == [p EXCEPT !.current_price = price]
  IN  IF queue_truthy(q)
      THEN LET u == LotQueue_calculate_unrealized_pnl(q, price, fx_rate) IN
           [p1 EXCEPT !.unrealized_pnl = u,
                      !.market_value = RMul(RMul(p.quantity, price), fx_rate),
                      !.total_pnl = RAdd(p.realized_pnl, u)]
      ELSE p1

calculate_unrealized_pnl(c, current_prices, fx_rates) ==
  LET portfolio == build_portfolio_pnl(c)
      pos == [i \in 1..Len(portfolio.positions) |->
                [ key |-> portfolio.positions[i].key,
                  val |-> value_position(c, portfolio.positions[i].val,
                                         current_prices, fx_rates) ]]
  IN  [portfolio EXCEPT
         !.positions = pos,
         !.total_unrealized_pnl = PositionSum(pos, LAMBDA p : p.unrealized_pnl),
         !.total_market_value = PositionSum(pos, LAMBDA p : p.market_value)]

\* ------------------------------------------------------------------------
\* services/lot_tracking_service.py : LotTrackingService
\* ------------------------------------------------------------------------
LotTrackingService_new == [ queues |-> EmptyMap, corporate_actions |-> << >> ]

service_process_buy(s, txn) ==
  LET lot == Lot(txn.symbol, txn.transaction_date, txn.price, txn.quantity,
                 txn.net_amount, txn.fx_rate)
      qs  == IF Has(s.queues, txn.symbol) THEN s.queues
             ELSE Put(s.queues, txn.symbol, LotQueue_new)
  IN  [ service |-> [s EXCEPT !.queues =
                       Put(qs, txn.symbol, add_lot(At(qs, txn.symbol), lot))],
        ret     |-> [action |-> "lot_created"] ]

service_process_sell(s, txn) ==
  IF ~Has(s.queues, txn.symbol) \/ ~queue_truthy(At(s.queues, txn.symbol))
  THEN [service |-> s, ret |-> [action |-> "sell_error"]]
  ELSE IF RLt(total_quantity(At(s.queues, txn.symbol)), txn.quantity)
  THEN [service |-> s, ret |-> [action |-> "sell_warning"]]
  ELSE LET r == dispose_fifo(At(s.queues, txn.symbol), sale_of(txn)) IN
       [ service |-> [s EXCEPT !.queues = Put(@, txn.symbol, r.queue)],
         ret     |-> [action |-> "lots_disposed", realized_pnl |-> r.ret] ]

service_process_stock_split(s, txn) ==
  IF ~Has(s.queues, txn.symbol) \/ ~queue_truthy(At(s.queues, txn.symbol))
  THEN [service |-> s, ret |-> [action |-> "split_error"]]
  ELSE IF ~RLt(Zero, total_quantity(At(s.queues, txn.symbol)))
  THEN [service |-> s, ret |-> [action |-> "split_error"]]
  ELSE [ service |-> [s EXCEPT
                        !.queues = Put(@, txn.symbol,
                                       split_queue(At(@, txn.symbol), txn.quantity)),
                        !.corporate_actions = Append(@,
                           [ symbol |-> txn.symbol,
                             additional_shares |-> txn.quantity ])],
         ret     |-> [action |-> "split_processed"] ]

service_process_transaction(s, txn) ==
  IF TransactionType_is_buy(txn.transaction_type) THEN service_process_buy(s, txn)
  ELSE IF TransactionType_is_sell(txn.transaction_type) THEN service_process_sell(s, txn)
  ELSE IF txn.transaction_type = "STOCK_SPLIT" THEN service_process_stock_split(s, txn)
  ELSE [service |-> s, ret |-> [action |-> "none"]]

\* ------------------------------------------------------------------------
\* models/performance.py : ReconciliationResult, PortfolioReconciliation
\* ------------------------------------------------------------------------
\* Python's None where a Decimal may stand: the empty tuple
None == << >>
\* symbol=None on a ReconciliationResult
NoSymbol == ""

ReconciliationStatus == {"PASS", "FAIL", "WARNING", "N/A"}

\* Faulty variant of the constructor: a difference equal to the tolerance
\* fails
ReconciliationResult_strict(metric_name, calculated_value, expected_value, tolerance, symbol) ==
  LET difference == RSub(calculated_value, expected_value) IN
  [ metric_name      |-> metric_name,
    calculated_value |-> calculated_value,
    expected_value   |-> expected_value,
    tolerance        |-> tolerance,
    difference       |-> difference,
    status           |-> IF RLt(RAbs(difference), tolerance) THEN "PASS" ELSE "FAIL",
    symbol           |-> symbol ]

\* ReconciliationResult(...) followed by __post_init__
ReconciliationResult(metric_name, calculated_value, expected_value, tolerance, symbol) ==
  LET difference == RSub(calculated_value, expected_value) IN
  [ metric_name      |-> metric_name,
    calculated_value |-> calculated_value,
    expected_value   |-> expected_value,
    tolerance        |-> tolerance,
    difference       |-> difference,
    status           |-> IF RLe(RAbs(difference), tolerance) THEN "PASS" ELSE "FAIL",
    symbol           |-> symbol ]

PortfolioReconciliation_new ==
  [ results             |-> << >>,
    position_results    |-> EmptyMap,
    data_quality_issues |-> << >>,
    total_checks        |-> 0,
    passed_checks       |-> 0,
    failed_checks       |-> 0,
    warning_checks      |-> 0 ]

\* result.symbol is truthy: append to position_results[symbol]
file_by_symbol(position_results, result) ==
  IF result.symbol = NoSymbol THEN position_results
  ELSE Put(position_results, result.symbol,
           Append(Get(position_results, result.symbol, << >>), result))

\* Faulty variant of add_result: a WARNING is counted as a failure
add_result_warning_fails(recon, result) ==
  [recon EXCEPT
     !.results = Append(@, result),
     !.total_checks = @ + 1,
     !.passed_checks = IF result.status = "PASS" THEN @ + 1 ELSE @,
     !.failed_checks = IF result.status \in {"FAIL", "WARNING"} THEN @ + 1 ELSE @,
     !.warning_checks = IF result.status = "WARNING" THEN @ + 1 ELSE @,
     !.position_results = file_by_symbol(@, result)]

\* Faulty variant of add_result: the result is put at the head of the list
add_result_prepends(recon, result) ==
  [recon EXCEPT
     !.results = << result >> \o @,
     !.total_checks = @ + 1,
     !.passed_checks = IF result.status = "PASS" THEN @ + 1 ELSE @,
     !.failed_checks = IF result.status = "FAIL" THEN @ + 1 ELSE @,
     !.warning_checks = IF result.status = "WARNING" THEN @ + 1 ELSE @,
     !.position_results = file_by_symbol(@, result)]

add_result(recon, result) ==
  [recon EXCEPT
     !.results = Append(@, result),
     !.total_checks = @ + 1,
     !.passed_checks = IF result.status = "PASS" THEN @ + 1 ELSE @,
     !.failed_checks = IF result.status = "FAIL" THEN @ + 1 ELSE @,
     !.warning_checks = IF result.status = "WARNING" THEN @ + 1 ELSE @,
     !.position_results = file_by_symbol(@, result)]

is_fully_reconciled(recon) == recon.failed_checks = 0

\* ------------------------------------------------------------------------
\* config/tolerances.py and services/reconciliation_service.py
\* ------------------------------------------------------------------------
Tolerances ==
  [ xirr                |-> RDiv(R(1), R(10000)),
    twr                 |-> RDiv(R(1), R(10000)),
    realized_pnl        |-> RDiv(R(1), R(100)),
    unrealized_pnl      |-> RDiv(R(1), R(100)),
    total_pnl_portfolio |-> R(1),
    quantity            |-> RDiv(R(1), R(10000)),
    market_value        |-> RDiv(R(1), R(100)) ]

\* the (up to four) results _reconcile_positions builds for one position,
\* in the order it adds them
position_checks(symbol, position, exp_pos) ==
  (IF Has(exp_pos, "quantity")
   THEN << ReconciliationResult("Quantity", position.quantity,
             At(exp_pos, "quantity"), Tolerances.quantity, symbol) >>
   ELSE << >>)
  \o (IF Has(exp_pos, "cost_basis")
      THEN << ReconciliationResult("Cost Basis", position.cost_basis,
                At(exp_pos, "cost_basis"), Tolerances.market_value, symbol) >>
      ELSE << >>)
  \o (IF Has(exp_pos, "market_value")
      THEN << ReconciliationResult("Market Value", position.market_value,
                At(exp_pos, "market_value"), Tolerances.market_value, symbol) >>
      ELSE << >>)
  \o (IF Has(exp_pos, "unrealized_pnl")
      THEN << ReconciliationResult("Unrealized P&L", position.unrealized_pnl,
                At(exp_pos, "unrealized_pnl"), Tolerances.unrealized_pnl, symbol) >>
      ELSE << >>)

RECURSIVE add_results(_, _, _)
add_results(recon, rs, i) ==
  IF i > Len(rs) THEN recon ELSE add_results(add_result(recon, rs[i]), rs, i + 1)

\* Faulty variant of the loop of _reconcile_positions: a position without
\* expected values is reported as a failed quantity check against zero
RECURSIVE reconcile_from_flag_missing(_, _, _, _)
reconcile_from_flag_missing(recon, positions, expected_positions, i) ==
  IF i > Len(positions) THEN recon
  ELSE LET symbol   == positions[i].key
           position == positions[i].val
           exp_pos  == Get(expected_positions, symbol, EmptyMap)
           checks   == IF Len(exp_pos) = 0
                       THEN << ReconciliationResult("Quantity", position.quantity,
                                 Zero, Tolerances.quantity, symbol) >>
                       ELSE position_checks(symbol, position, exp_pos)
       IN  reconcile_from_flag_missing(add_results(recon, checks, 1),
                                       positions, expected_positions, i + 1)

\* the loop of _reconcile_positions over portfolio_pnl.positions.items()
RECURSIVE reconcile_from(_, _, _, _)
reconcile_from(recon, positions, expected_positions, i) ==
  IF i > Len(positions) THEN recon
  ELSE LET symbol   == positions[i].key
           position == positions[i].val
           exp_pos  == Get(expected_positions, symbol, EmptyMap)
       IN  IF Len(exp_pos) = 0
           THEN reconcile_from(recon, positions, expected_positions, i + 1)
           ELSE reconcile_from(
                  add_results(recon, position_checks(symbol, position, exp_pos), 1),
                  positions, expected_positions, i + 1)

reconcile_positions(recon, portfolio_pnl, expected) ==
  reconcile_from(recon, portfolio_pnl.positions,
                 Get(expected, "positions", EmptyMap), 1)

\* ------------------------------------------------------------------------
\* calculators/irr_calculator.py : IRRCalculator.calculate_xirr
\* ------------------------------------------------------------------------
\* settings.irr_max_iterations
irr_max_iterations == 100
\* the alternative initial guesses tried after the first attempt
alt_guesses ==
  << RDiv(R(-1), R(2)), RDiv(R(1), R(2)), RDiv(R(1), R(100)),
     RDiv(R(-1), R(100)), R(1), RDiv(R(-9), R(10)) >>

CashFlow(d, amount) == [date |-> d, amount |-> amount]

\* sorted(cash_flows, key=lambda x: x.date): stable
RECURSIVE insert_by_cf_date(_, _)
insert_by_cf_date(s, x) ==
  IF s = << >> THEN << x >>
  ELSE IF s[Len(s)].date <= x.date THEN Append(s, x)
  ELSE Append(insert_by_cf_date(SubSeq(s, 1, Len(s) - 1), x), s[Len(s)])

RECURSIVE sorted_cfs(_)
sorted_cfs(s) ==
  IF s = << >> THEN << >>
  ELSE insert_by_cf_date(sorted_cfs(SubSeq(s, 1, Len(s) - 1)), s[Len(s)])

\* amounts = [float(cf.amount) for cf in sorted_cfs]
amounts_of(cash_flows) ==
  LET s == sorted_cfs(cash_flows) IN [i \in 1..Len(s) |-> s[i].amount]

\* Faulty variant of the sign test: zero amounts are not counted with
\* either sign
no_sign_change_strict(amounts) ==
  \/ \A i \in 1..Len(amounts) : RLt(Zero, amounts[i])
  \/ \A i \in 1..Len(amounts) : RLt(amounts[i], Zero)

\* all(a >= 0 for a in amounts) or all(a <= 0 for a in amounts)
no_sign_change(amounts) ==
  \/ \A i \in 1..Len(amounts) : RLe(Zero, amounts[i])
  \/ \A i \in 1..Len(amounts) : RLe(amounts[i], Zero)

\* The solver as a process.  pc is the place in calculate_xirr: "idle"
\* before the call, "newton" in the first Newton-Raphson loop, "alternate"
\* in _try_converge for alt_guesses[attempt], "returned" after the return.
\* stepped records whether NPV and its derivative were ever evaluated.
Xirr_idle ==
  [ pc |-> "idle", cash_flows |-> << >>, amounts |-> << >>, attempt |-> 0,
    iteration |-> 0, stepped |-> FALSE, result |-> None ]

\* the outcome of one Newton-Raphson step depends on float arithmetic on
\* the NPV, which is left open: each branch of the loop body is possible
NewtonOutcomes == {"small_derivative", "converged", "updated"}
TryConvergeOutcomes == {"small_derivative", "converged", "out_of_range", "updated"}
\* the rate a converged attempt returns, known by the attempt that found it
Converged(attempt) == << "rate", attempt >>

\* calculate_xirr up to its first Newton-Raphson step
xirr_enter(cash_flows) ==
  IF Len(cash_flows) < 2
  THEN [Xirr_idle EXCEPT !.pc = "returned", !.cash_flows = cash_flows]
  ELSE IF no_sign_change(amounts_of(cash_flows))
  THEN [Xirr_idle EXCEPT !.pc = "returned", !.cash_flows = cash_flows,
                         !.amounts = amounts_of(cash_flows)]
  ELSE [Xirr_idle EXCEPT !.pc = "newton", !.cash_flows = cash_flows,
                         !.amounts = amounts_of(cash_flows)]

\* one pass through the body of the first loop
newton_step(x, outcome) ==
  IF outcome = "converged"
  THEN [x EXCEPT !.pc = "returned", !.stepped = TRUE,
                 !.iteration = @ + 1, !.result = Converged(0)]
  ELSE [x EXCEPT !.stepped = TRUE, !.iteration = @ + 1]

\* Faulty variant of the retry loop: the last alternative guess is never
\* tried
next_alternate_skips_last(x) ==
  IF x.attempt < Len(alt_guesses) - 1
  THEN [x EXCEPT !.pc = "alternate", !.attempt = @ + 1, !.iteration = 0]
  ELSE [x EXCEPT !.pc = "returned", !.result = None]

\* _try_converge returned None for alt_guesses[x.attempt]
next_alternate(x) ==
  IF x.attempt < Len(alt_guesses)
  THEN [x EXCEPT !.pc = "alternate", !.attempt = @ + 1, !.iteration = 0]
  ELSE [x EXCEPT !.pc = "returned", !.result = None]

\* one pass through the body of the loop of _try_converge
try_converge_step(x, outcome) ==
  LET y == [x EXCEPT !.stepped = TRUE, !.iteration = @ + 1] IN
  IF outcome = "converged"
  THEN [y EXCEPT !.pc = "returned", !.result = Converged(x.attempt)]
  ELSE IF outcome = "updated" THEN y
  ELSE next_alternate(y)

\* ------------------------------------------------------------------------
\* calculators/twr_calculator.py : TWRCalculator, utils/math_utils.py
\* ------------------------------------------------------------------------
DailyValue(d, value, cash_flow) == [date |-> d, value |-> value, cash_flow |-> cash_flow]

\* sorted(daily_values, key=lambda x: x.date): stable
sorted_values(daily_values) == sorted_cfs(daily_values)

\* cf_dict = {d: a for d, a in cash_flows}: the last entry of a date wins
RECURSIVE cf_dict_to(_, _)
cf_dict_to(cash_flows, n) ==
  IF n = 0 THEN EmptyMap
  ELSE Put(cf_dict_to(cash_flows, n - 1), cash_flows[n].date, cash_flows[n].amount)

cf_dict(cash_flows) == cf_dict_to(cash_flows, Len(cash_flows))

\* "if cash_flows: ... dv.cash_flow = cf_dict[dv.date]": the DailyValue
\* objects are the caller's, so this is the caller's list after the call
apply_cash_flows(daily_values, cash_flows) ==
  IF cash_flows = << >> THEN daily_values
  ELSE [i \in 1..Len(daily_values) |->
          IF Has(cf_dict(cash_flows), daily_values[i].date)
          THEN [daily_values[i] EXCEPT
                  !.cash_flow = At(cf_dict(cash_flows), daily_values[i].date)]
          ELSE daily_values[i]]

\* Faulty variant of the sub-period return: the gain is measured against
\* the closing value
sub_period_return_on_end(start, end, cash_flow) ==
  IF end.value = Zero THEN Zero
  ELSE RDiv(RSub(RSub(end.value, start.value), cash_flow), end.value)

\* the denominator of _calculate_sub_period_return, use_modified_dietz=True
sub_period_denominator(start, end, cash_flow) ==
  LET total_days == end.date - start.date
      weight     == IF total_days > 0 THEN One ELSE RDiv(R(1), R(2))
  IN  IF cash_flow # Zero
      THEN RAdd(start.value, RMul(weight, cash_flow))
      ELSE RAdd(start.value, cash_flow)

\* _calculate_sub_period_return(...).return_value
sub_period_return(start, end, cash_flow) ==
  LET denominator == sub_period_denominator(start, end, cash_flow)
  IN  IF denominator = Zero THEN Zero
      ELSE RDiv(RSub(RSub(end.value, start.value), cash_flow), denominator)

\* _calculate_sub_periods: the returns of the sub-periods, i and
\* period_start_idx counted from 1
RECURSIVE sub_periods_from(_, _, _, _)
sub_periods_from(dv, i, period_start_idx, acc) ==
  IF i > Len(dv)
  THEN IF period_start_idx < Len(dv)
       THEN Append(acc, sub_period_return(dv[period_start_idx], dv[Len(dv)], Zero))
       ELSE acc
  ELSE IF dv[i].cash_flow # Zero
  THEN sub_periods_from(dv, i + 1, i,
         Append(acc, sub_period_return(dv[period_start_idx], dv[i], dv[i].cash_flow)))
  ELSE sub_periods_from(dv, i + 1, period_start_idx, acc)

calculate_sub_periods(dv) == sub_periods_from(dv, 2, 1, << >>)

RECURSIVE compound_to(_, _)
compound_to(returns, n) ==
  IF n = 0 THEN One ELSE RMul(compound_to(returns, n - 1), RAdd(One, returns[n]))

calculate_compound_return(returns) ==
  IF returns = << >> THEN Zero ELSE RSub(compound_to(returns, Len(returns)), One)

\* (end - start) / start, or None on a zero start value
simple_return(start_value, end_value) ==
  IF start_value = Zero THEN None
  ELSE RDiv(RSub(end_value, start_value), start_value)

\* TWRCalculator.calculate_twr: the caller's list after the call and the
\* value returned
calculate_twr(daily_values, cash_flows) ==
  IF Len(daily_values) < 2
  THEN [daily_values |-> daily_values, ret |-> None]
  ELSE LET applied == apply_cash_flows(daily_values, cash_flows)
           sorted  == sorted_values(applied)
           sub_periods == calculate_sub_periods(sorted)
       IN  [ daily_values |-> applied,
             ret |-> IF sub_periods = << >>
                     THEN simple_return(sorted[1].value, sorted[Len(sorted)].value)
                     ELSE calculate_compound_return(sub_periods) ]

\* the sums of the Modified Dietz loop over cash_flows
total_cf(cash_flows) == RSum([i \in 1..Len(cash_flows) |-> cash_flows[i].amount])
weighted_cf(cash_flows, end_date, total_days) ==
  RSum([i \in 1..Len(cash_flows) |->
          RMul(RDiv(R(end_date - cash_flows[i].date), R(total_days)),
               cash_flows[i].amount)])

\* TWRCalculator.calculate_twr_from_transactions
calculate_twr_from_transactions(start_value, end_value, start_date, end_date, cash_flows) ==
  LET total_days == end_date - start_date IN
  IF total_days <= 0 THEN None
  ELSE IF cash_flows = << >> THEN simple_return(start_value, end_value)
  ELSE LET denominator == RAdd(start_value, weighted_cf(cash_flows, end_date, total_days))
       IN  IF denominator = Zero THEN None
           ELSE RDiv(RSub(RSub(end_value, start_value), total_cf(cash_flows)),
                     denominator)

\* ------------------------------------------------------------------------
\* services/data_quality_service.py : DataQualityService
\* ------------------------------------------------------------------------
\* The checks on settlement dates, option fields and bond fields read
\* fields the transactions of the model do not carry: every transaction is
\* an equity trade settled on its trade date, for which these three checks
\* report nothing.  affected_records keeps the rows, not their text; the
\* [:10] cut never applies to lists this short.
DataQualityIssue(severity, category, message, affected_records) ==
  [ severity |-> severity, category |-> category, message |-> message,
    affected_records |-> affected_records ]

DataQualityReport_new(total_records) ==
  [ total_records |-> total_records, issues |-> << >>,
    critical_count |-> 0, warning_count |-> 0, info_count |-> 0 ]

add_issue(report, issue) ==
  [report EXCEPT
     !.issues = Append(@, issue),
     !.critical_count = IF issue.severity = "critical" THEN @ + 1 ELSE @,
     !.warning_count = IF issue.severity = "warning" THEN @ + 1 ELSE @,
     !.info_count = IF issue.severity \notin {"critical", "warning"} THEN @ + 1 ELSE @]

has_critical_issues(report) == report.critical_count > 0

\* the rows (counted from 1) whose transaction passes the test
Rows(transactions, Test(_)) ==
  SelectSeq([i \in 1..Len(transactions) |-> i], LAMBDA i : Test(transactions[i]))
\* report.add_issue(...) under 'if affected:'
add_issue_if(report, affected, severity, category, message) ==
  IF affected = << >> THEN report
  ELSE add_issue(report, DataQualityIssue(severity, category, message, affected))

check_completeness(transactions, report) ==
  LET missing_symbol == Rows(transactions, LAMBDA t : t.symbol = "")
      missing_price  == Rows(transactions, LAMBDA t :
                          /\ t.price = Zero
                          /\ t.transaction_type \notin {"STOCK_SPLIT", "OPTION_EXPIRY"})
      zero_quantity  == Rows(transactions, LAMBDA t : t.quantity = Zero)
      r1 == add_issue_if(report, missing_symbol, "critical", "completeness",
                         "Transactions with missing symbol")
      r2 == add_issue_if(r1, missing_price, "warning", "completeness",
                         "Transactions with zero or missing price")
  IN  add_issue_if(r2, zero_quantity, "warning", "completeness",
                   "Transactions with zero quantity")

check_chronological_order(transactions, report) ==
  LET out_of_order ==
        SelectSeq([i \in 1..Len(transactions) |-> i],
                  LAMBDA i : /\ i > 1
                             /\ transactions[i].transaction_date
                                  < transactions[i - 1].transaction_date)
  IN  add_issue_if(report, out_of_order, "info", "consistency",
                   "Transactions not in chronological order")

\* the key of _check_duplicate_transactions
duplicate_key(t) ==
  << t.transaction_date, t.symbol, t.transaction_type, t.quantity, t.price >>

check_duplicate_transactions(transactions, report) ==
  LET n == Len(transactions)
      rows_of(i) == SelectSeq([j \in 1..n |-> j],
                      LAMBDA j : duplicate_key(transactions[j])
                                   = duplicate_key(transactions[i]))
      firsts == SelectSeq([i \in 1..n |-> i],
                  LAMBDA i : rows_of(i)[1] = i /\ Len(rows_of(i)) > 1)
      duplicates == [k \in 1..Len(firsts) |-> rows_of(firsts[k])]
  IN  add_issue_if(report, duplicates, "warning", "consistency",
                   "Potential duplicate transactions detected")

\* the loop of _check_negative_positions over the date-sorted transactions:
\* positions is the defaultdict, negative the list built so far
RECURSIVE negative_positions_from(_, _, _, _)
negative_positions_from(s, i, positions, negative) ==
  IF i > Len(s) THEN negative
  ELSE LET txn  == s[i]
           held == Get(positions, txn.symbol, Zero)
       IN  IF TransactionType_is_buy(txn.transaction_type)
           THEN negative_positions_from(s, i + 1,
                  Put(positions, txn.symbol, RAdd(held, txn.quantity)), negative)
           ELSE IF TransactionType_is_sell(txn.transaction_type)
           THEN LET left == RSub(held, txn.quantity) IN
                negative_positions_from(s, i + 1,
                  Put(positions, txn.symbol, left),
                  IF RLt(left, Zero)
                  THEN Append(negative, [ date |-> txn.transaction_date,
                                          symbol |-> txn.symbol,
                                          selling |-> txn.quantity,
                                          have |-> held ])
                  ELSE negative)
           ELSE negative_positions_from(s, i + 1, positions, negative)

check_negative_positions(transactions, report) ==
  add_issue_if(report,
               negative_positions_from(sorted_by_date(transactions), 1, EmptyMap, << >>),
               "critical", "consistency",
               "Sell transactions exceed available quantity (short selling or missing buys)")

\* the anomalies of one symbol: consecutive prices, in date order, that
\* differ by more than 50% of the earlier one
symbol_anomalies(transactions, symbol) ==
  LET prices == sorted_by_date(SelectSeq(transactions,
                  LAMBDA t : t.symbol = symbol /\ RLt(Zero, t.price)))
      jumps  == SelectSeq([i \in 1..Len(prices) |-> i],
                  LAMBDA i : /\ i > 1
                             /\ RLt(RDiv(R(1), R(2)),
                                    RAbs(RDiv(RSub(prices[i].price, prices[i - 1].price),
                                              prices[i - 1].price))))
  IN  [k \in 1..Len(jumps) |->
         [ symbol |-> symbol,
           prev_price |-> prices[jumps[k] - 1].price,
           curr_price |-> prices[jumps[k]].price,
           prev_date  |-> prices[jumps[k] - 1].transaction_date,
           curr_date  |-> prices[jumps[k]].transaction_date ]]

RECURSIVE anomalies_from(_, _, _)
anomalies_from(transactions, symbols, i) ==
  IF i > Len(symbols) THEN << >>
  ELSE symbol_anomalies(transactions, symbols[i])
         \o anomalies_from(transactions, symbols, i + 1)

check_price_anomalies(transactions, report) ==
  LET priced  == SelectSeq(transactions, LAMBDA t : RLt(Zero, t.price))
      \* the keys of prices_by_symbol, in insertion order
      symbols == LET firsts == SelectSeq([i \in 1..Len(priced) |-> i],
                      LAMBDA i : \A j \in 1..(i - 1) : priced[j].symbol # priced[i].symbol)
                 IN  [k \in 1..Len(firsts) |-> priced[firsts[k]].symbol]
  IN  add_issue_if(report, anomalies_from(transactions, symbols, 1),
                   "warning", "anomaly", "Large price changes detected (>50%)")

check_fx_rates(transactions, report) ==
  add_issue_if(report,
               Rows(transactions, LAMBDA t :
                 \/ RLe(t.fx_rate, Zero)
                 \/ RLt(R(1000), t.fx_rate)
                 \/ RLt(t.fx_rate, RDiv(R(1), R(1000)))),
               "warning", "validity", "FX rate anomalies")

validate_transactions(transactions) ==
  LET report == DataQualityReport_new(Len(transactions)) IN
  IF transactions = << >>
  THEN add_issue(report, DataQualityIssue("warning", "completeness",
                                          "No transactions provided", << >>))
  ELSE check_fx_rates(transactions,
         check_price_anomalies(transactions,
           check_negative_positions(transactions,
             check_duplicate_transactions(transactions,
               check_chronological_order(transactions,
                 check_completeness(transactions, report))))))

\* ------------------------------------------------------------------------
\* services/reconciliation_service.py : ReconciliationService
\* ------------------------------------------------------------------------
\* Transaction.to_cash_flow
to_cash_flow(txn) ==
  IF txn.transaction_type \in {"DEPOSIT", "BUY", "OPTION_BUY"}
  THEN RSub(Zero, txn.net_amount)
  ELSE IF txn.transaction_type \in {"WITHDRAWAL", "SELL", "OPTION_SELL"}
  THEN txn.net_amount
  ELSE IF TransactionType_is_income(txn.transaction_type) THEN txn.net_amount
  ELSE Zero

\* PortfolioPnL.net_realized_income, .total_realized_pnl, .total_pnl
net_realized_income(p) ==
  RSub(RSub(RSub(RAdd(RAdd(p.gross_dividend_income, p.gross_interest_income),
                      p.option_premium_received),
                 p.withholding_tax),
            p.interest_expense),
       p.other_fees)
total_realized_pnl(p) == RAdd(p.realized_capital_gains, net_realized_income(p))
portfolio_total_pnl(p) ==
  RAdd(RAdd(p.realized_capital_gains, net_realized_income(p)), p.total_unrealized_pnl)

\* PerformanceMetrics(...) followed by __post_init__, which recomputes
\* total_pnl and total_income from the other fields.  twr_annualized,
\* computed in floating point from twr and the two dates kept here, is not
\* carried.
PerformanceMetrics(realized_pnl, unrealized_pnl, total_pnl, dividend_income, interest_income, cost_basis, market_value, end_date) ==
  [ irr |-> None, xirr |-> None, twr |-> None,
    realized_pnl |-> realized_pnl,
    unrealized_pnl |-> unrealized_pnl,
    total_pnl |-> RAdd(realized_pnl, unrealized_pnl),
    dividend_income |-> dividend_income,
    interest_income |-> interest_income,
    total_income |-> RAdd(dividend_income, interest_income),
    total_cost_basis |-> cost_basis,
    total_market_value |-> market_value,
    start_date |-> None,
    end_date |-> end_date ]

\* ReconciliationInput
ReconciliationInput(transactions, current_prices, fx_rates, valuation_date, expected_values) ==
  [ transactions |-> transactions, current_prices |-> current_prices,
    fx_rates |-> fx_rates, valuation_date |-> valuation_date,
    expected_values |-> expected_values ]

\* the cash flows of the transactions whose to_cash_flow() is not zero
flows_of(transactions) ==
  LET moving == SelectSeq(transactions, LAMBDA t : to_cash_flow(t) # Zero)
  IN  [i \in 1..Len(moving) |-> CashFlow(moving[i].transaction_date, to_cash_flow(moving[i]))]

\* _build_cash_flows
build_cash_flows(transactions, portfolio_pnl, valuation_date) ==
  flows_of(transactions)
    \o (IF RLt(Zero, portfolio_pnl.total_market_value)
        THEN << CashFlow(valuation_date, portfolio_pnl.total_market_value) >>
        ELSE << >>)

\* IRRCalculator.calculate_xirr from call to return.  The two guards are
\* computed; what the floating-point iteration that follows them returns
\* for a given date-sorted list of cash flows (a rate, or None when neither
\* the first guess nor an alternative converges) is read from newton, a
\* function from such lists to that outcome.
calculate_xirr(cash_flows, newton) ==
  IF Len(cash_flows) < 2 THEN None
  ELSE IF no_sign_change(amounts_of(cash_flows)) THEN None
  ELSE LET sorted == sorted_cfs(cash_flows) IN
       IF sorted \in DOMAIN newton THEN newton[sorted] ELSE None

\* ReconciliationService(): the collaborators that hold state.  The IRR
\* and TWR calculators hold settings only and DataQualityService never
\* writes its two attributes.
ReconciliationService_new ==
  [ pnl_calculator |-> PnLCalculator_new, lot_service |-> LotTrackingService_new ]

\* Faulty variant of _calculate_pnl: the calculator of the previous run is
\* used again
calculate_pnl_keeps_calculator(rs, transactions, current_prices, fx_rates) ==
  Only({ [ service |-> [rs EXCEPT !.pnl_calculator = c],
           ret     |-> calculate_unrealized_pnl(c, current_prices, fx_rates) ] :
         c \in { process_transactions(rs.pnl_calculator, transactions).calc } })

\* _calculate_pnl
calculate_pnl(rs, transactions, current_prices, fx_rates) ==
  Only({ [ service |-> [rs EXCEPT !.pnl_calculator = c],
           ret     |-> calculate_unrealized_pnl(c, current_prices, fx_rates) ] :
         c \in { process_transactions(PnLCalculator_new, transactions).calc } })

\* _calculate_performance
calculate_performance(transactions, portfolio_pnl, valuation_date, newton) ==
  LET metrics == PerformanceMetrics(total_realized_pnl(portfolio_pnl),
                                    portfolio_pnl.total_unrealized_pnl,
                                    portfolio_total_pnl(portfolio_pnl),
                                    portfolio_pnl.gross_dividend_income,
                                    portfolio_pnl.gross_interest_income,
                                    portfolio_pnl.total_cost_basis,
                                    portfolio_pnl.total_market_value,
                                    valuation_date)
      cash_flows == build_cash_flows(transactions, portfolio_pnl, valuation_date)
      m1 == IF Len(cash_flows) >= 2
            THEN LET x == calculate_xirr(cash_flows, newton) IN
                 [metrics EXCEPT !.xirr = x, !.irr = x]
            ELSE metrics
  IN  IF transactions = << >> THEN m1
      ELSE LET sorted_txns == sorted_by_date(transactions)
               start_date  == sorted_txns[1].transaction_date
               deposits    == SelectSeq(sorted_txns,
                                LAMBDA t : t.transaction_type = "DEPOSIT")
               start_value == RSum([i \in 1..Len(deposits) |-> deposits[i].net_amount])
               m2 == [m1 EXCEPT !.start_date = start_date]
           IN  IF RLt(Zero, start_value)
               THEN [m2 EXCEPT !.twr =
                       calculate_twr_from_transactions(
                         start_value,
                         RAdd(portfolio_pnl.total_market_value,
                              total_realized_pnl(portfolio_pnl)),
                         start_date, valuation_date, flows_of(sorted_txns))]
               ELSE m2

\* step 4 of run_reconciliation, the checks on P&L, market value and cost
\* basis: the results in the order they are added
\* Faulty variant of the value checks: the portfolio's total P&L is held to
\* the cent like the realized P&L
value_checks_total_to_the_cent(calculated_metrics, expected) ==
  (IF Has(expected, "realized_pnl")
   THEN << ReconciliationResult("Realized P&L", calculated_metrics.realized_pnl,
             At(expected, "realized_pnl"), Tolerances.realized_pnl, NoSymbol) >>
   ELSE << >>)
  \o (IF Has(expected, "unrealized_pnl")
      THEN << ReconciliationResult("Unrealized P&L", calculated_metrics.unrealized_pnl,
                At(expected, "unrealized_pnl"), Tolerances.unrealized_pnl, NoSymbol) >>
      ELSE << >>)
  \o (IF Has(expected, "total_pnl")
      THEN << ReconciliationResult("Total P&L", calculated_metrics.total_pnl,
                At(expected, "total_pnl"), Tolerances.realized_pnl, NoSymbol) >>
      ELSE << >>)
  \o (IF Has(expected, "market_value")
      THEN << ReconciliationResult("Market Value", calculated_metrics.total_market_value,
                At(expected, "market_value"), Tolerances.market_value, NoSymbol) >>
      ELSE << >>)
  \o (IF Has(expected, "cost_basis")
      THEN << ReconciliationResult("Cost Basis", calculated_metrics.total_cost_basis,
                At(expected, "cost_basis"), Tolerances.market_value, NoSymbol) >>
      ELSE << >>)

value_checks(calculated_metrics, expected) ==
  (IF Has(expected, "realized_pnl")
   THEN << ReconciliationResult("Realized P&L", calculated_metrics.realized_pnl,
             At(expected, "realized_pnl"), Tolerances.realized_pnl, NoSymbol) >>
   ELSE << >>)
  \o (IF Has(expected, "unrealized_pnl")
      THEN << ReconciliationResult("Unrealized P&L", calculated_metrics.unrealized_pnl,
                At(expected, "unrealized_pnl"), Tolerances.unrealized_pnl, NoSymbol) >>
      ELSE << >>)
  \o (IF Has(expected, "total_pnl")
      THEN << ReconciliationResult("Total P&L", calculated_metrics.total_pnl,
                At(expected, "total_pnl"), Tolerances.total_pnl_portfolio, NoSymbol) >>
      ELSE << >>)
  \o (IF Has(expected, "market_value")
      THEN << ReconciliationResult("Market Value", calculated_metrics.total_market_value,
                At(expected, "market_value"), Tolerances.market_value, NoSymbol) >>
      ELSE << >>)
  \o (IF Has(expected, "cost_basis")
      THEN << ReconciliationResult("Cost Basis", calculated_metrics.total_cost_basis,
                At(expected, "cost_basis"), Tolerances.market_value, NoSymbol) >>
      ELSE << >>)

\* Faulty variant of step 4: a return the solver could not compute is
\* compared as a return of zero
portfolio_checks_none_as_zero(calculated_metrics, expected) ==
  (IF Has(expected, "irr") \/ Has(expected, "xirr")
   THEN << ReconciliationResult("XIRR",
             IF calculated_metrics.xirr = None THEN Zero ELSE calculated_metrics.xirr,
             Get(expected, "xirr", Get(expected, "irr", Zero)),
             Tolerances.xirr, NoSymbol) >>
   ELSE << >>)
  \o (IF Has(expected, "twr")
      THEN << ReconciliationResult("TWR",
                IF calculated_metrics.twr = None THEN Zero ELSE calculated_metrics.twr,
                At(expected, "twr"), Tolerances.twr, NoSymbol) >>
      ELSE << >>)
  \o value_checks(calculated_metrics, expected)

\* step 4 of run_reconciliation: the portfolio-level results, in the order
\* they are added
portfolio_checks(calculated_metrics, expected) ==
  (IF (Has(expected, "irr") \/ Has(expected, "xirr")) /\ calculated_metrics.xirr # None
   THEN << ReconciliationResult("XIRR", calculated_metrics.xirr,
             Get(expected, "xirr", Get(expected, "irr", Zero)),
             Tolerances.xirr, NoSymbol) >>
   ELSE << >>)
  \o (IF Has(expected, "twr") /\ calculated_metrics.twr # None
      THEN << ReconciliationResult("TWR", calculated_metrics.twr,
                At(expected, "twr"), Tolerances.twr, NoSymbol) >>
      ELSE << >>)
  \o value_checks(calculated_metrics, expected)

\* steps 1 and 4 of run_reconciliation, given what steps 2 and 3 computed:
\* the issues and the data_quality result, the portfolio-level results, the
\* position-level results
reconcile(dq_report, portfolio_pnl, calculated_metrics, expected) ==
  LET recon0 == [PortfolioReconciliation_new EXCEPT
                   !.data_quality_issues = dq_report.issues]
      recon1 == IF has_critical_issues(dq_report)
                THEN add_result(recon0,
                       ReconciliationResult("data_quality", R(dq_report.critical_count),
                                            Zero, Zero, NoSymbol))
                ELSE recon0
  IN  reconcile_positions(
        add_results(recon1, portfolio_checks(calculated_metrics, expected), 1),
        portfolio_pnl, expected)

\* run_reconciliation: the service after the run, the PortfolioReconciliation
\* it returns and the calculated_metrics it attaches to it
run_reconciliation(rs, input_data, newton) ==
  Only({ Only({ [ service |-> pnl.service,
                  recon   |-> reconcile(dq_report, pnl.ret, calculated_metrics,
                                        input_data.expected_values),
                  calculated_metrics |-> calculated_metrics ] :
                calculated_metrics \in
                  { calculate_performance(input_data.transactions, pnl.ret,
                                          input_data.valuation_date, newton) } }) :
         dq_report \in { validate_transactions(input_data.transactions) },
         pnl \in { calculate_pnl(rs, input_data.transactions,
                                 input_data.current_prices, input_data.fx_rates) } })

\* ------------------------------------------------------------------------
\* calculators/fx_converter.py : FXConverter
\* ------------------------------------------------------------------------
\* FXConverter(): _rates maps a currency to its rates by date, _rate_cache
\* maps (currency, date) to the rate a lookup returned
FXConverter_new ==
  [ base_currency |-> "USD", rates |-> EmptyMap, rate_cache |-> EmptyMap ]

set_rate(converter, currency, rate_date, rate) ==
  [converter EXCEPT
     !.rates = Put(@, upper(currency),
                   Put(Get(@, upper(currency), EmptyMap), rate_date, rate)),
     !.rate_cache = EmptyMap]

\* range(1, 8): the days the fallback goes back
fallback_days == 7

\* the first prev_date = rate_date - days_back, days_back = 1, 2, ..., that
\* has a rate
first_previous(date_rates, rate_date) ==
  rate_date - (CHOOSE days_back \in 1..fallback_days :
                 /\ Has(date_rates, rate_date - days_back)
                 /\ \A d \in 1..(days_back - 1) : ~Has(date_rates, rate_date - d))

\* get_rate: the converter after the call and the rate returned
get_rate(converter, currency, rate_date, fallback_to_previous) ==
  LET cur       == upper(currency)
      cache_key == << cur, rate_date >>
      found(rate) == [ converter |-> [converter EXCEPT
                                        !.rate_cache = Put(@, cache_key, rate)],
                       ret |-> rate ]
  IN  IF cur = converter.base_currency THEN [converter |-> converter, ret |-> One]
      ELSE IF Has(converter.rate_cache, cache_key)
      THEN [converter |-> converter, ret |-> At(converter.rate_cache, cache_key)]
      ELSE IF ~Has(converter.rates, cur) THEN [converter |-> converter, ret |-> None]
      ELSE IF Has(At(converter.rates, cur), rate_date)
      THEN found(At(At(converter.rates, cur), rate_date))
      ELSE IF fallback_to_previous
              /\ \E days_back \in 1..fallback_days :
                   Has(At(converter.rates, cur), rate_date - days_back)
      THEN found(At(At(converter.rates, cur),
                    first_previous(At(converter.rates, cur), rate_date)))
      ELSE [converter |-> converter, ret |-> None]

\* ------------------------------------------------------------------------
\* State
\* ------------------------------------------------------------------------
VARIABLES
  queue,       \* a LotQueue driven directly through add_lot / dispose_fifo
  qlast,       \* the last call on queue: its arguments, the queue before it
               \* and the value it returned
  txns,        \* the caller's transaction list
  calc,        \* a PnLCalculator
  calc_ret,    \* what the last call on calc returned (a PortfolioPnL)
  service,     \* a LotTrackingService
  fed,         \* how many entries of txns the caller has passed to service
  service_ret, \* what the last service.process_transaction returned
  rr,          \* the arguments of one ReconciliationResult and, once
               \* constructed, the result
  recon,       \* a PortfolioReconciliation
  recon_last,  \* the last call on recon: its arguments and recon before it
  xirr,        \* one call of IRRCalculator.calculate_xirr in progress
  daily_values, \* the caller's list of DailyValue objects
  twr_ret,     \* the last call of a TWR entry point: arguments and result
  reconciliation_service, \* a ReconciliationService
  runs,        \* the run_reconciliation calls made so far: the input, the
               \* service before and after, and what the call returned
  newton,      \* what the floating-point iteration of calculate_xirr
               \* returns for each list of cash flows it is given
  fx_converter, \* an FXConverter
  fx_ret       \* the last call on fx_converter: its arguments and result

vars == << queue, qlast, txns, calc, calc_ret, service, fed, service_ret,
           rr, recon, recon_last, xirr, daily_values, twr_ret,
           reconciliation_service, runs, newton, fx_converter, fx_ret >>
queue_vars == << queue, qlast >>
ledger_vars == << txns, calc, calc_ret, service, fed, service_ret >>
recon_vars == << rr, recon, recon_last >>
solver_vars == << xirr, daily_values, twr_ret >>
run_vars == << reconciliation_service, runs, newton >>
fx_vars == << fx_converter, fx_ret >>

\* Lots handed to add_lot: (date, price, quantity, cost, fx)
LotInputs ==
  { Lot("AAPL", 1, R(150), R(100), R(15000), One),
    Lot("AAPL", 2, R(160), R(50), R(8000), One),
    Lot("AAPL", 2, R(33), R(3), R(100), One),
    Lot("AAPL", 1, R(0), Zero, Zero, One),
    Lot("AAPL", 1, R(10), R(20), R(200), R(2)) }

SaleInputs ==
  { [quantity |-> R(75), price |-> R(170), date |-> 3, fx |-> One],
    [quantity |-> R(120), price |-> R(170), date |-> 3, fx |-> One],
    [quantity |-> R(200), price |-> R(10), date |-> 4, fx |-> One],
    [quantity |-> R(3), price |-> R(40), date |-> 4, fx |-> R(2)] }

NoCall == [op |-> "none"]

LedgerIdle ==
  /\ txns = << >>
  /\ calc = PnLCalculator_new
  /\ calc_ret = NoCall
  /\ service = LotTrackingService_new
  /\ fed = 0
  /\ service_ret = NoCall

QueueIdle ==
  /\ queue = LotQueue_new
  /\ qlast = NoCall

ResultIdle == rr = NoCall

ReconIdle ==
  /\ recon = PortfolioReconciliation_new
  /\ recon_last = NoCall

XirrIdle == xirr = Xirr_idle

TwrIdle ==
  /\ daily_values = << >>
  /\ twr_ret = NoCall

RunIdle ==
  /\ reconciliation_service = ReconciliationService_new
  /\ runs = << >>
  /\ newton = << >>

FxIdle ==
  /\ fx_converter = FXConverter_new
  /\ fx_ret = NoCall

\* The bare LotQueue and the ledger objects share nothing: a behaviour
\* drives either the queue or the ledger, which keeps the reachable states
\* the sum and not the product of the two.
AddLot(lot) ==
  /\ txns = << >> /\ calc_ret = NoCall
  /\ Len(queue.lot) < MaxLots
  /\ queue' = add_lot(queue, lot)
  /\ qlast' = [op |-> "add_lot", pre |-> queue, added |-> lot]
  /\ UNCHANGED << fx_vars, run_vars, ledger_vars, recon_vars, solver_vars >>

DisposeFifo(sale) ==
  /\ txns = << >> /\ calc_ret = NoCall
  /\ Len(queue.disposed_lots) < MaxDisposals
  /\ LET r == dispose_fifo(queue, sale) IN
       /\ queue' = r.queue
       /\ qlast' = [op |-> "dispose_fifo", pre |-> queue, sale |-> sale, ret |-> r.ret]
  /\ UNCHANGED << fx_vars, run_vars, ledger_vars, recon_vars, solver_vars >>

QueueNext ==
  \/ \E lot \in LotInputs : AddLot(lot)
  \/ \E sale \in SaleInputs : DisposeFifo(sale)

\* ------------------------------------------------------------------------
\* The ledger driven by a caller: a transaction list is built, replayed by
\* the PnLCalculator, valued, and passed entry by entry to the
\* LotTrackingService
\* ------------------------------------------------------------------------
NoDesc == ""
TxnInputs ==
  { Transaction(1, "BUY", "AAPL", R(100), R(150), Zero, One, NoDesc),
    Transaction(2, "BUY", "AAPL", R(50), R(160), Zero, One, NoDesc),
    Transaction(3, "SELL", "AAPL", R(75), R(170), Zero, One, NoDesc),
    Transaction(2, "SELL", "AAPL", R(200), R(170), Zero, One, NoDesc),
    Transaction(2, "STOCK_SPLIT", "AAPL", R(9), Zero, Zero, One, NoDesc),
    Transaction(3, "STOCK_SPLIT", "AAPL", R(9), Zero, Zero, One, NoDesc),
    Transaction(1, "BUY", "AAPL", R(1), R(1000), Zero, One, NoDesc),
    Transaction(1, "BUY", "AAPL", R(3), R(10), R(1), R(2), NoDesc),
    Transaction(1, "BUY", "QQQ_OPQ", R(2), R(4), Zero, One, NoDesc),
    Transaction(2, "SELL", "QQQ_OPQ", R(1), R(5), Zero, One, NoDesc),
    Transaction(1, "BUY", "USD", R(1000), R(1), Zero, One, NoDesc),
    Transaction(3, "DIVIDEND", "AAPL", R(1), R(20), Zero, One, NoDesc) }

PriceMaps == { EmptyMap, << [key |-> "AAPL", val |-> R(175)] >> }
FxMaps == { EmptyMap, << [key |-> "AAPL", val |-> R(2)] >> }

LedgerInit ==
  QueueIdle /\ LedgerIdle /\ RunIdle /\ FxIdle /\ ResultIdle /\ ReconIdle /\ XirrIdle /\ TwrIdle

Submit(t) ==
  /\ qlast = NoCall
  /\ Len(txns) < MaxTxns
  /\ calc_ret = NoCall /\ fed = 0
  /\ txns' = Append(txns, t)
  /\ UNCHANGED << fx_vars, run_vars, calc, calc_ret, service, fed, service_ret, queue_vars,
                  recon_vars, solver_vars >>

ProcessTransactions ==
  /\ qlast = NoCall
  /\ calc_ret = NoCall
  /\ LET r == process_transactions(calc, txns) IN
       /\ calc' = r.calc
       /\ calc_ret' = [op |-> "process_transactions", ret |-> r.ret]
  /\ UNCHANGED << fx_vars, run_vars, txns, service, fed, service_ret, queue_vars,
                  recon_vars, solver_vars >>

CalculateUnrealizedPnl(current_prices, fx_rates) ==
  /\ calc_ret # NoCall
  /\ calc_ret' = [ op |-> "calculate_unrealized_pnl",
                   current_prices |-> current_prices, fx_rates |-> fx_rates,
                   ret |-> calculate_unrealized_pnl(calc, current_prices, fx_rates) ]
  /\ UNCHANGED << fx_vars, run_vars, txns, calc, service, fed, service_ret, queue_vars,
                  recon_vars, solver_vars >>

ServiceProcessTransaction ==
  /\ fed < Len(txns)
  /\ LET r == service_process_transaction(service, txns[fed + 1]) IN
       /\ service' = r.service
       /\ service_ret' = [op |-> "process_transaction", pre |-> service,
                          txn |-> txns[fed + 1], ret |-> r.ret]
  /\ fed' = fed + 1
  /\ UNCHANGED << fx_vars, run_vars, txns, calc, calc_ret, queue_vars,
                  recon_vars, solver_vars >>

LedgerNext ==
  \/ QueueNext
  \/ \E t \in TxnInputs : Submit(t)
  \/ ProcessTransactions
  \/ \E p \in PriceMaps, f \in FxMaps : CalculateUnrealizedPnl(p, f)
  \/ ServiceProcessTransaction

SpecLedger == LedgerInit /\ [][LedgerNext]_vars


\* ------------------------------------------------------------------------
\* The PnLCalculator replaying lists of option, cash, income and fee
\* transactions
\* ------------------------------------------------------------------------
BuyOption == Transaction(1, "BUY", "QQQ_OPQ", R(2), R(4), Zero, One, NoDesc)
\* sold for 5 with a commission of 1: net amount 4
SellOption == Transaction(2, "SELL", "QQQ_OPQ", R(1), R(5), R(1), One, NoDesc)
SellOptionLower == Transaction(2, "OPTION_SELL", "qqq_opq", R(1), R(5), Zero, One, NoDesc)
\* sold for 5 with a commission of 10: net amount -5
SellOptionAtLoss == Transaction(2, "SELL", "QQQ_OPQ", R(1), R(5), R(10), One, NoDesc)
DispatchInputs ==
  { BuyOption, SellOption, SellOptionLower, SellOptionAtLoss,
    Transaction(1, "BUY", "AAPL", R(100), R(150), Zero, One, NoDesc),
    Transaction(2, "SELL", "AAPL", R(75), R(170), Zero, One, NoDesc),
    Transaction(1, "BUY", "USD", R(1000), R(1), Zero, One, NoDesc),
    Transaction(2, "SELL", "usd", R(500), R(1), Zero, One, NoDesc),
    Transaction(2, "STOCK_SPLIT", "EUR", R(9), Zero, Zero, One, NoDesc),
    Transaction(3, "DIVIDEND", "USD", R(1), R(20), Zero, One, NoDesc),
    Transaction(3, "INTEREST", "AAPL", R(1), R(7), Zero, One, NoDesc),
    Transaction(3, "COUPON", "eur", R(1), R(9), Zero, One, NoDesc),
    Transaction(3, "FEE", "AAPL", R(1), R(3), Zero, One, NoDesc),
    Transaction(3, "COMMISSION", "USD", R(1), R(2), Zero, One, NoDesc),
    Transaction(3, "FEE", "WTAX", R(1), R(4), Zero, One, NoDesc) }

DispatchNext ==
  \/ \E t \in DispatchInputs : Submit(t)
  \/ ProcessTransactions

SpecDispatch == LedgerInit /\ [][DispatchNext]_vars
\* ------------------------------------------------------------------------
\* A caller constructing one ReconciliationResult
\* ------------------------------------------------------------------------
CalculatedInputs ==
  { R(100), RDiv(R(100004), R(1000)), RDiv(R(10001), R(100)),
    RDiv(R(10002), R(100)), RDiv(R(9999), R(100)), RDiv(R(9998), R(100)) }
ExpectedInputs == { R(100), RDiv(R(10001), R(100)), Zero }
ToleranceInputs == { Tolerances.market_value, Tolerances.total_pnl_portfolio, Zero }

ResultInit ==
  /\ rr \in { [ op |-> "none", calculated_value |-> c, expected_value |-> e,
                tolerance |-> t ] :
              c \in CalculatedInputs, e \in ExpectedInputs, t \in ToleranceInputs }
  /\ ReconIdle /\ XirrIdle /\ TwrIdle /\ QueueIdle /\ LedgerIdle /\ RunIdle /\ FxIdle

Construct ==
  /\ rr.op = "none"
  /\ rr' = [ op |-> "ReconciliationResult",
             calculated_value |-> rr.calculated_value,
             expected_value |-> rr.expected_value,
             tolerance |-> rr.tolerance,
             result |-> ReconciliationResult("Check", rr.calculated_value,
                          rr.expected_value, rr.tolerance, NoSymbol) ]
  /\ UNCHANGED << fx_vars, run_vars, recon, recon_last, solver_vars, queue_vars, ledger_vars >>

ResultNext == Construct

SpecResult == ResultInit /\ [][ResultNext]_vars

\* ------------------------------------------------------------------------
\* A PortfolioReconciliation filled the way run_reconciliation fills it:
\* single results are added, then _reconcile_positions runs once, last
\* ------------------------------------------------------------------------
CheckInputs == { RDiv(R(100004), R(1000)), RDiv(R(10002), R(100)) }
\* the status a caller assigns to a constructed result before adding it
\* (the dataclass is not frozen); Kept leaves the constructed status
Kept == ""
StatusInputs == { Kept, "WARNING", "N/A" }
SymbolInputs == { NoSymbol, "AAPL" }

BuyAAPL == Transaction(1, "BUY", "AAPL", R(100), R(150), Zero, One, NoDesc)
BuyMSFT == Transaction(1, "BUY", "MSFT", R(10), R(300), Zero, One, NoDesc)
HeldInputs ==
  { << >>, << BuyAAPL >>, << BuyMSFT >>, << BuyAAPL, BuyMSFT >>,
    << BuyMSFT, BuyAAPL >> }
MarketPrices ==
  << [key |-> "AAPL", val |-> R(175)], [key |-> "MSFT", val |-> R(300)] >>
\* the PortfolioPnL run_reconciliation hands over: process_transactions
\* followed by calculate_unrealized_pnl
PortfolioInputs ==
  { calculate_unrealized_pnl(process_transactions(PnLCalculator_new, h).calc,
                             MarketPrices, EmptyMap) : h \in HeldInputs }

ExpectedAAPL ==
  { << >>,
    << [key |-> "AAPL", val |-> EmptyMap] >>,
    << [key |-> "AAPL",
        val |-> << [key |-> "quantity", val |-> R(100)],
                   [key |-> "market_value", val |-> RDiv(R(1750002), R(100))] >>] >> }
ExpectedMSFT ==
  { << >>,
    << [key |-> "MSFT",
        val |-> << [key |-> "quantity", val |-> R(11)],
                   [key |-> "cost_basis", val |-> R(3000)],
                   [key |-> "market_value", val |-> R(3000)],
                   [key |-> "unrealized_pnl", val |-> Zero] >>] >> }
ExpectedGOOG ==
  { << >>,
    << [key |-> "GOOG", val |-> << [key |-> "quantity", val |-> R(5)] >>] >> }
ExpectedDicts ==
  { EmptyMap } \cup
  { << [key |-> "positions", val |-> a \o m \o g] >> :
      a \in ExpectedAAPL, m \in ExpectedMSFT, g \in ExpectedGOOG }

ReconInit == ReconIdle /\ ResultIdle /\ XirrIdle /\ TwrIdle /\ QueueIdle /\ LedgerIdle /\ RunIdle /\ FxIdle

AddResult(calculated, status, symbol) ==
  /\ recon_last.op # "reconcile_positions"
  /\ Len(recon.results) < MaxResults
  /\ LET r == ReconciliationResult("Check", calculated, R(100),
                                   Tolerances.market_value, symbol)
         result == IF status = Kept THEN r ELSE [r EXCEPT !.status = status]
     IN  /\ recon' = add_result(recon, result)
         /\ recon_last' = [op |-> "add_result", pre |-> recon, result |-> result]
  /\ UNCHANGED << fx_vars, run_vars, rr, solver_vars, queue_vars, ledger_vars >>

ReconcilePositions(portfolio_pnl, expected) ==
  /\ recon_last.op # "reconcile_positions"
  /\ recon' = reconcile_positions(recon, portfolio_pnl, expected)
  /\ recon_last' = [ op |-> "reconcile_positions", pre |-> recon,
                     portfolio_pnl |-> portfolio_pnl, expected |-> expected ]
  /\ UNCHANGED << fx_vars, run_vars, rr, solver_vars, queue_vars, ledger_vars >>

ReconNext ==
  \/ \E c \in CheckInputs, st \in StatusInputs, sym \in SymbolInputs :
       AddResult(c, st, sym)
  \/ \E p \in PortfolioInputs, e \in ExpectedDicts : ReconcilePositions(p, e)

SpecRecon == ReconInit /\ [][ReconNext]_vars

\* ------------------------------------------------------------------------
\* One call of calculate_xirr, step by step
\* ------------------------------------------------------------------------
CashFlowInputs ==
  { CashFlow(0, R(-100)), CashFlow(365, R(110)), CashFlow(0, Zero) }
CashFlowLists == UNION { [1..n -> CashFlowInputs] : n \in 0..MaxCashFlows }

XirrInit == XirrIdle /\ TwrIdle /\ ResultIdle /\ ReconIdle /\ QueueIdle /\ LedgerIdle /\ RunIdle /\ FxIdle

CalculateXirr(cash_flows) ==
  /\ xirr.pc = "idle"
  /\ xirr' = xirr_enter(cash_flows)
  /\ UNCHANGED << fx_vars, run_vars, daily_values, twr_ret, recon_vars, queue_vars, ledger_vars >>

NewtonStep(outcome) ==
  /\ xirr.pc = "newton"
  /\ xirr.iteration < irr_max_iterations
  /\ xirr' = newton_step(xirr, outcome)
  /\ UNCHANGED << fx_vars, run_vars, daily_values, twr_ret, recon_vars, queue_vars, ledger_vars >>

\* the first loop ran out of iterations: on to the alternative guesses
NewtonExhausted ==
  /\ xirr.pc = "newton"
  /\ xirr.iteration = irr_max_iterations
  /\ xirr' = next_alternate(xirr)
  /\ UNCHANGED << fx_vars, run_vars, daily_values, twr_ret, recon_vars, queue_vars, ledger_vars >>

TryConvergeStep(outcome) ==
  /\ xirr.pc = "alternate"
  /\ xirr.iteration < irr_max_iterations
  /\ xirr' = try_converge_step(xirr, outcome)
  /\ UNCHANGED << fx_vars, run_vars, daily_values, twr_ret, recon_vars, queue_vars, ledger_vars >>

TryConvergeExhausted ==
  /\ xirr.pc = "alternate"
  /\ xirr.iteration = irr_max_iterations
  /\ xirr' = next_alternate(xirr)
  /\ UNCHANGED << fx_vars, run_vars, daily_values, twr_ret, recon_vars, queue_vars, ledger_vars >>

XirrNext ==
  \/ \E cfs \in CashFlowLists : CalculateXirr(cfs)
  \/ \E o \in NewtonOutcomes : NewtonStep(o)
  \/ NewtonExhausted
  \/ \E o \in TryConvergeOutcomes : TryConvergeStep(o)
  \/ TryConvergeExhausted

SpecXirr == XirrInit /\ [][XirrNext]_vars

\* ------------------------------------------------------------------------
\* A caller holding a list of DailyValue objects and calling the TWR
\* entry points
\* ------------------------------------------------------------------------
DailyValueInputs ==
  { DailyValue(1, R(10000), Zero), DailyValue(2, R(10500), Zero),
    DailyValue(3, R(11000), Zero), DailyValue(1, Zero, Zero),
    DailyValue(2, R(10600), R(500)) }
DailyValueLists == UNION { [1..n -> DailyValueInputs] : n \in 0..MaxDailyValues }
TwrCashFlowInputs ==
  { << >>, << CashFlow(2, R(1000)) >>,
    << CashFlow(3, R(-500)), CashFlow(3, R(2000)) >>,
    << CashFlow(1, R(-10000)) >>, << CashFlow(2, R(-10000)) >> }
StartValueInputs == { R(10000), Zero }
EndValueInputs == { R(11000) }
StartDateInputs == { 1 }
EndDateInputs == { 1, 366 }

TwrInit ==
  /\ daily_values \in DailyValueLists
  /\ twr_ret = NoCall
  /\ XirrIdle /\ ResultIdle /\ ReconIdle /\ QueueIdle /\ LedgerIdle /\ RunIdle /\ FxIdle

CalculateTwr(cash_flows) ==
  /\ LET r == calculate_twr(daily_values, cash_flows) IN
       /\ daily_values' = r.daily_values
       /\ twr_ret' = [ op |-> "calculate_twr", pre |-> daily_values,
                       cash_flows |-> cash_flows, ret |-> r.ret ]
  /\ UNCHANGED << fx_vars, run_vars, xirr, recon_vars, queue_vars, ledger_vars >>

CalculateTwrFromTransactions(start_value, end_value, start_date, end_date, cash_flows) ==
  /\ twr_ret' = [ op |-> "calculate_twr_from_transactions",
                  start_value |-> start_value, end_value |-> end_value,
                  start_date |-> start_date, end_date |-> end_date,
                  cash_flows |-> cash_flows,
                  ret |-> calculate_twr_from_transactions(start_value, end_value,
                            start_date, end_date, cash_flows) ]
  /\ UNCHANGED << fx_vars, run_vars, daily_values, xirr, recon_vars, queue_vars, ledger_vars >>

TwrNext ==
  \/ \E cfs \in TwrCashFlowInputs : CalculateTwr(cfs)
  \/ \E sv \in StartValueInputs, ev \in EndValueInputs, sd \in StartDateInputs,
        ed \in EndDateInputs, cfs \in TwrCashFlowInputs :
       CalculateTwrFromTransactions(sv, ev, sd, ed, cfs)

SpecTwr == TwrInit /\ [][TwrNext]_vars


\* ------------------------------------------------------------------------
\* Specification of ReconciliationService.run_reconciliation
\* ------------------------------------------------------------------------
DepositUSD == Transaction(1, "DEPOSIT", "USD", R(10000), R(1), Zero, One, NoDesc)
Sell75 == Transaction(3, "SELL", "AAPL", R(75), R(170), Zero, One, NoDesc)
Buy50 == Transaction(2, "BUY", "AAPL", R(50), R(160), Zero, One, NoDesc)
Sell200 == Transaction(2, "SELL", "AAPL", R(200), R(170), Zero, One, NoDesc)
AAPL175 == << [key |-> "AAPL", val |-> R(175)] >>
\* a 1-for-2 reverse split of 100 shares: 50 shares fewer
ReverseSplit50 == Transaction(2, "STOCK_SPLIT", "AAPL", R(-50), Zero, Zero, One, NoDesc)
Sell100 == Transaction(3, "SELL", "AAPL", R(100), R(170), Zero, One, NoDesc)

\* (transactions, current_prices, valuation_date)
Scenarios ==
  { << << >>, EmptyMap, 11 >>,
    << << DepositUSD, BuyAAPL, Sell75 >>, AAPL175, 11 >>,
    << << BuyAAPL >>, EmptyMap, 11 >>,
    << << BuyAAPL, Buy50 >>, EmptyMap, 11 >>,
    << << DepositUSD >>, EmptyMap, 1 >>,
    << << DepositUSD >>, EmptyMap, 11 >>,
    << << BuyAAPL, Sell200 >>, EmptyMap, 11 >> }

ExpectedAll ==
  << [key |-> "xirr", val |-> RDiv(R(1), R(10))],
     [key |-> "twr", val |-> RDiv(R(-325), R(192))],
     [key |-> "realized_pnl", val |-> R(1500)],
     [key |-> "unrealized_pnl", val |-> R(625)],
     [key |-> "total_pnl", val |-> R(2125)],
     [key |-> "market_value", val |-> R(4375)],
     [key |-> "cost_basis", val |-> R(3750)] >>
ExpectedValueMaps ==
  { EmptyMap,
    ExpectedAll,
    << [key |-> "irr", val |-> RDiv(R(1), R(10))] >>,
    << [key |-> "irr", val |-> RDiv(R(1), R(10))],
       [key |-> "xirr", val |-> RDiv(R(3), R(10))] >>,
    << [key |-> "twr", val |-> Zero] >>,
    << [key |-> "realized_pnl", val |-> R(1500)],
       [key |-> "total_pnl", val |-> R(2000)] >>,
    << [key |-> "market_value", val |-> R(17500)],
       [key |-> "positions",
        val |-> << [key |-> "AAPL",
                    val |-> << [key |-> "quantity", val |-> R(25)],
                               [key |-> "cost_basis", val |-> R(15000)],
                               [key |-> "unrealized_pnl", val |-> R(625)] >>] >>] >> }

RunInputs ==
  { ReconciliationInput(s[1], s[2], EmptyMap, s[3], e) :
      s \in Scenarios, e \in ExpectedValueMaps }
  \cup { ReconciliationInput(<< BuyAAPL, ReverseSplit50, Sell100 >>,
                             EmptyMap, EmptyMap, 11, EmptyMap) }

\* the cash flows run_reconciliation hands to calculate_xirr for an input
FlowsOf(input_data) ==
  build_cash_flows(input_data.transactions,
                   calculate_pnl(ReconciliationService_new, input_data.transactions,
                                 input_data.current_prices, input_data.fx_rates).ret,
                   input_data.valuation_date)
\* the date-sorted lists that pass both guards of calculate_xirr
IteratedFlows ==
  { sorted_cfs(f) : f \in { g \in { FlowsOf(i) : i \in RunInputs } :
      Len(g) >= 2 /\ ~no_sign_change(amounts_of(g)) } }
\* what the iteration can return: no solution, or a rate
XirrOutcomes == { None, RDiv(R(1), R(10)) }

RunInit ==
  /\ reconciliation_service = ReconciliationService_new
  /\ runs = << >>
  /\ newton \in [IteratedFlows -> XirrOutcomes]
  /\ QueueIdle /\ LedgerIdle /\ ResultIdle /\ ReconIdle /\ XirrIdle /\ TwrIdle /\ FxIdle

\* service.run_reconciliation(input_data)
RunReconciliation(input_data) ==
  /\ Len(runs) < MaxRuns
  /\ \E r \in { run_reconciliation(reconciliation_service, input_data, newton) } :
       /\ reconciliation_service' = r.service
       /\ runs' = Append(runs, [ input |-> input_data,
                                 pre |-> reconciliation_service,
                                 recon |-> r.recon,
                                 calculated_metrics |-> r.calculated_metrics ])
  /\ UNCHANGED << fx_vars, newton, queue_vars, ledger_vars, recon_vars, solver_vars >>

\* service = ReconciliationService(): the caller goes on with a new instance
NewService ==
  /\ runs # << >>
  /\ Len(runs) < MaxRuns
  /\ reconciliation_service # ReconciliationService_new
  /\ reconciliation_service' = ReconciliationService_new
  /\ UNCHANGED << fx_vars, runs, newton, queue_vars, ledger_vars, recon_vars, solver_vars >>

RunNext ==
  \/ \E i \in RunInputs : RunReconciliation(i)
  \/ NewService

SpecRun == RunInit /\ [][RunNext]_vars

\* ------------------------------------------------------------------------
\* A caller setting and reading rates on one FXConverter
\* ------------------------------------------------------------------------
FxCurrencies == { "EUR", "eur", "USD" }
FxSetDates == { 1, 2 }
FxRates == { RDiv(R(92), R(100)), RDiv(R(9), R(10)) }
\* the day of the second rate, and the last day either rate is within reach
FxGetDates == { 2, 8, 9 }

FxInit ==
  FxIdle /\ RunIdle /\ QueueIdle /\ LedgerIdle /\ ResultIdle /\ ReconIdle /\ XirrIdle /\ TwrIdle

SetRate(currency, rate_date, rate) ==
  /\ fx_converter' = set_rate(fx_converter, currency, rate_date, rate)
  /\ fx_ret' = [ op |-> "set_rate", currency |-> currency, rate_date |-> rate_date,
                 rate |-> rate ]
  /\ UNCHANGED << run_vars, queue_vars, ledger_vars, recon_vars, solver_vars >>

GetRate(currency, rate_date, fallback_to_previous) ==
  /\ \E r \in { get_rate(fx_converter, currency, rate_date, fallback_to_previous) } :
       /\ fx_converter' = r.converter
       /\ fx_ret' = [ op |-> "get_rate", currency |-> currency, rate_date |-> rate_date,
                      fallback_to_previous |-> fallback_to_previous, ret |-> r.ret ]
  /\ UNCHANGED << run_vars, queue_vars, ledger_vars, recon_vars, solver_vars >>

FxNext ==
  \/ \E c \in FxCurrencies \ { "USD" }, d \in FxSetDates, r \in FxRates : SetRate(c, d, r)
  \/ \E c \in FxCurrencies, d \in FxGetDates, f \in BOOLEAN : GetRate(c, d, f)

SpecFx == FxInit /\ [][FxNext]_vars

\* ========================================================================
\* Properties
\* ========================================================================
Range(s) == {s[i] : i \in 1..Len(s)}
Qty(q, i) == q.lot[i].remaining_quantity

\* ---- C1 ----------------------------------------------------------------
\* The quantity the last dispose_fifo took from lot i of the queue
Disposed(i) == RSub(Qty(qlast.pre, i), Qty(queue, i))

C1_Case ==
  /\ qlast.op = "dispose_fifo"
  /\ qlast.sale.fx = One
  /\ \A i \in 1..Len(qlast.pre.lot) : qlast.pre.lot[i].acquisition_fx_rate = One
  /\ RLt(Zero, qlast.sale.quantity)
  /\ RLe(qlast.sale.quantity, total_quantity(qlast.pre))

\* C1: after dispose_fifo(q, p) with 0 < q <= held quantity and all FX rates 1,
\* a lot has lost quantity only if every lot added before it is fully
\* depleted, and the returned realized P&L is the sum over the lots of
\* disposed_qty_i * (p - cost_per_unit_i).
C1_FifoOrderAndPnl ==
  C1_Case =>
    /\ \A i \in 1..Len(qlast.pre.lot) :
         RLt(Zero, Disposed(i)) => \A j \in 1..(i - 1) : Qty(queue, j) = Zero
    /\ qlast.ret = RSum([i \in 1..Len(qlast.pre.lot) |->
                     RMul(Disposed(i),
                          RSub(qlast.sale.price, cost_per_unit(qlast.pre.lot[i])))])

\* a first disposal that spans two lots
C1_Witness ==
  /\ C1_Case
  /\ qlast.pre.disposed_lots = << >>
  /\ Len(qlast.pre.lot) >= 2
  /\ RLt(Zero, Disposed(1)) /\ RLt(Zero, Disposed(2))
  /\ RLt(Zero, Qty(queue, 2))

\* ---- C2 ----------------------------------------------------------------
QuantityAdded(q) == RSum([i \in 1..Len(q.lot) |-> q.lot[i].acquisition_quantity])
QuantityDisposed(q) == RSum([i \in 1..Len(q.disposed_lots) |-> q.disposed_lots[i].qty])

\* C2: in every state of a LotQueue driven by add_lot and dispose_fifo,
\* total_quantity equals the quantity added minus the quantity recorded as
\* disposed in the disposal history.
C2_QuantityConserved ==
  total_quantity(queue) = RSub(QuantityAdded(queue), QuantityDisposed(queue))

\* a depleted lot has left the deque and the next lot is partly consumed
C2_Witness ==
  /\ Len(queue.lots) >= 1
  /\ Len(queue.lots) < Len(queue.lot)
  /\ Len(queue.disposed_lots) >= 2
  /\ \E i \in Range(queue.lots) :
       /\ RLt(Zero, Qty(queue, i))
       /\ RLt(Qty(queue, i), queue.lot[i].acquisition_quantity)

\* ---- C6 ----------------------------------------------------------------
\* The lots of a queue that a disposal can take from, oldest first
Takeable(q) == active_lots(q)

\* What an oversell must leave behind: every lot emptied, one new history
\* entry per lot that held something, oldest first, for exactly what the lot
\* held, realized P&L on those quantities only, nothing held afterwards.
OversellOutcome(pre, sale, post) ==
  LET n == Len(pre.disposed_lots)
      t == Takeable(pre)
      Pnl(i) == RSub(RMul(RMul(Qty(pre, i), sale.price), sale.fx),
                     RMul(RMul(cost_per_unit(pre.lot[i]), Qty(pre, i)),
                          pre.lot[i].acquisition_fx_rate))
  IN  /\ total_quantity(post) = Zero
      /\ \A i \in 1..Len(post.lot) : Qty(post, i) = Zero
      /\ Len(post.disposed_lots) = n + Len(t)
      /\ SubSeq(post.disposed_lots, 1, n) = pre.disposed_lots
      /\ \A j \in 1..Len(t) :
           post.disposed_lots[n + j] =
             [ lot |-> t[j], qty |-> Qty(pre, t[j]), pnl |-> Pnl(t[j]),
               date |-> sale.date ]
      /\ RSum([j \in 1..Len(t) |-> post.disposed_lots[n + j].qty]) = total_quantity(pre)
      /\ post.realized_pnl = RAdd(pre.realized_pnl, RSum([j \in 1..Len(t) |-> Pnl(t[j])]))

\* a replayed transaction that PnLCalculator routes to _process_sell
RoutedToSell(txn) ==
  /\ TransactionType_is_sell(txn.transaction_type)
  /\ ~is_cash_symbol(txn.symbol)
  /\ ~(is_option_symbol(txn.symbol) /\ RLt(Zero, txn.net_amount))

StepPre(st) == Get(st.pre, st.txn.symbol, LotQueue_new)
StepPost(st) == At(st.post, st.txn.symbol)

OversellSteps ==
  { k \in 1..Len(calc.steps) :
      /\ RoutedToSell(calc.steps[k].txn)
      /\ RLt(total_quantity(StepPre(calc.steps[k])), calc.steps[k].txn.quantity) }

QueueOversold ==
  /\ qlast.op = "dispose_fifo"
  /\ RLt(total_quantity(qlast.pre), qlast.sale.quantity)

\* C6: a dispose_fifo, called directly or by a sell that PnLCalculator
\* replays, that asks for more than is held completes, disposes exactly the
\* held quantity oldest-first, leaves total_quantity 0, realizes P&L on the
\* disposed quantity only and logs nothing for the unexecuted remainder.
C6_OversellDisposesHeld ==
  /\ QueueOversold =>
       /\ OversellOutcome(qlast.pre, qlast.sale, queue)
       /\ qlast.ret = RSub(queue.realized_pnl, qlast.pre.realized_pnl)
  /\ \A k \in OversellSteps :
       OversellOutcome(StepPre(calc.steps[k]), sale_of(calc.steps[k].txn),
                       StepPost(calc.steps[k]))

\* a replayed sell of 200 against two lots holding 150
C6_Witness ==
  \E k \in OversellSteps :
    /\ Len(Takeable(StepPre(calc.steps[k]))) = 2
    /\ total_quantity(StepPre(calc.steps[k])) = R(150)
    /\ calc.steps[k].txn.quantity = R(200)

\* ---- C7 ----------------------------------------------------------------
\* What a split of n new shares must do to a queue holding Q > 0
SplitOutcome(pre, n, post) ==
  LET Q     == total_quantity(pre)
      ratio == RDiv(RAdd(Q, n), Q)
  IN  /\ total_quantity(post) = RAdd(Q, n)
      /\ post.lots = pre.lots
      /\ \A i \in Range(pre.lots) :
           /\ Qty(post, i) = RMul(Qty(pre, i), ratio)
           /\ post.lot[i].acquisition_quantity =
                RMul(pre.lot[i].acquisition_quantity, ratio)
           /\ RMul(post.lot[i].acquisition_price, ratio) = pre.lot[i].acquisition_price
           /\ remaining_cost_basis(post.lot[i]) = remaining_cost_basis(pre.lot[i])

IsSplitOf(txn, pre) ==
  /\ txn.transaction_type = "STOCK_SPLIT"
  /\ RLt(Zero, total_quantity(pre))

CalcSplitSteps ==
  { k \in 1..Len(calc.steps) :
      /\ ~is_cash_symbol(calc.steps[k].txn.symbol)
      /\ IsSplitOf(calc.steps[k].txn, StepPre(calc.steps[k])) }

ServiceSplit ==
  /\ service_ret # NoCall
  /\ IsSplitOf(service_ret.txn,
               Get(service_ret.pre.queues, service_ret.txn.symbol, LotQueue_new))

\* the example of the claim: one lot of 1 share bought for 1000
OneShareAt1000(q) ==
  /\ Len(q.lots) = 1
  /\ Qty(q, q.lots[1]) = R(1)
  /\ q.lot[q.lots[1]].acquisition_quantity = R(1)
  /\ q.lot[q.lots[1]].acquisition_cost = R(1000)
  /\ q.lot[q.lots[1]].acquisition_price = R(1000)

TenSharesAt100(q) ==
  /\ Len(q.lots) = 1
  /\ Qty(q, q.lots[1]) = R(10)
  /\ q.lot[q.lots[1]].acquisition_price = R(100)
  /\ remaining_cost_basis(q.lot[q.lots[1]]) = R(1000)

\* C7: a stock split reporting n new shares for a symbol holding Q > 0, in
\* PnLCalculator and in LotTrackingService, multiplies every lot's remaining
\* and acquisition quantity by (Q + n) / Q and divides its acquisition price
\* by the same ratio; each lot's remaining cost basis is unchanged and
\* total_quantity becomes Q + n.  One lot of 1 share at 1000 receiving 9 new
\* shares ends with 10 shares at 100 and cost basis 1000.
C7_SplitScalesLots ==
  /\ \A k \in CalcSplitSteps :
       LET st == calc.steps[k] IN
       /\ SplitOutcome(StepPre(st), st.txn.quantity, StepPost(st))
       /\ (OneShareAt1000(StepPre(st)) /\ st.txn.quantity = R(9))
            => TenSharesAt100(StepPost(st))
  /\ ServiceSplit =>
       LET pre  == At(service_ret.pre.queues, service_ret.txn.symbol)
           post == At(service.queues, service_ret.txn.symbol)
       IN  /\ SplitOutcome(pre, service_ret.txn.quantity, post)
           /\ (OneShareAt1000(pre) /\ service_ret.txn.quantity = R(9))
                => TenSharesAt100(post)

\* both objects have split the one-share lot, and the calculator has also
\* split a queue of two lots whose ratio is not a whole number
C7_Witness ==
  /\ ServiceSplit
  /\ OneShareAt1000(At(service_ret.pre.queues, service_ret.txn.symbol))
  /\ \E k \in CalcSplitSteps : OneShareAt1000(StepPre(calc.steps[k]))

C7_WitnessFractional ==
  \E k \in CalcSplitSteps :
    /\ Len(StepPre(calc.steps[k]).lots) = 2
    /\ RDiv(total_quantity(StepPost(calc.steps[k])),
            total_quantity(StepPre(calc.steps[k])))[2] # 1

\* ---- C3 ----------------------------------------------------------------
\* The transactions in the order the calculator applied them
Applied == [k \in 1..Len(calc.steps) |-> calc.steps[k].txn]
IsBuy(t) == TransactionType_is_buy(t.transaction_type)
IsSell(t) == TransactionType_is_sell(t.transaction_type)
Buys == SelectSeq(Applied, IsBuy)
Sells == SelectSeq(Applied, IsSell)
Bought == RSum([i \in 1..Len(Buys) |-> Buys[i].quantity])
Sold == RSum([i \in 1..Len(Sells) |-> Sells[i].quantity])
RMax(a, b) == IF RLe(a, b) THEN b ELSE a

\* FIFO by definition: the units sold are the first Sold units bought
BoughtBefore(i) == RSum([j \in 1..(i - 1) |-> Buys[j].quantity])
TakenFrom(i) == RMax(Zero, RMin(Buys[i].quantity, RSub(Sold, BoughtBefore(i))))
FifoRealized ==
  RSub(RSum([i \in 1..Len(Sells) |-> RMul(Sells[i].quantity, Sells[i].price)]),
       RSum([i \in 1..Len(Buys) |-> RMul(TakenFrom(i), Buys[i].price)]))
FifoUnrealized(price) ==
  RSum([i \in 1..Len(Buys) |->
          RMul(RSub(Buys[i].quantity, TakenFrom(i)), RSub(price, Buys[i].price))])

\* the quantity held just before the k-th applied transaction
HeldBefore(k) ==
  RSub(RSum([j \in 1..(k - 1) |-> IF IsBuy(Applied[j]) THEN Applied[j].quantity ELSE Zero]),
       RSum([j \in 1..(k - 1) |-> IF IsSell(Applied[j]) THEN Applied[j].quantity ELSE Zero]))
NoSellExceedsHeld ==
  \A k \in 1..Len(Applied) :
    IsSell(Applied[k]) => RLe(Applied[k].quantity, HeldBefore(k))

\* buys and sells of one non-cash symbol, zero fees, FX rates 1, replayed and
\* then valued
C3_Case ==
  /\ calc_ret # NoCall
  /\ calc_ret.op = "calculate_unrealized_pnl"
  /\ txns # << >>
  /\ \A i \in 1..Len(txns) :
       /\ txns[i].symbol = txns[1].symbol
       /\ IsBuy(txns[i]) \/ IsSell(txns[i])
       /\ txns[i].commission = Zero
       /\ txns[i].fx_rate = One
  /\ ~is_cash_symbol(txns[1].symbol)
  /\ Get(calc_ret.fx_rates, txns[1].symbol, One) = One

C3_Position == At(calc_ret.ret.positions, txns[1].symbol)
C3_Price == Get(calc_ret.current_prices, txns[1].symbol, Zero)

C3_Outcome ==
  /\ C3_Position.realized_pnl = FifoRealized
  /\ C3_Position.quantity = RSub(Bought, Sold)
  /\ C3_Position.unrealized_pnl = FifoUnrealized(C3_Price)
  /\ C3_Position.unrealized_pnl =
       LET q == At(calc.lot_queues, txns[1].symbol) IN
       RSum([i \in 1..Len(q.lots) |->
               RMul(Qty(q, q.lots[i]),
                    RSub(C3_Price, cost_per_unit(q.lot[q.lots[i]])))])

C3_Example ==
  /\ calc_ret # NoCall
  /\ calc_ret.op = "calculate_unrealized_pnl"
  /\ txns = << Transaction(1, "BUY", "AAPL", R(100), R(150), Zero, One, NoDesc),
               Transaction(2, "BUY", "AAPL", R(50), R(160), Zero, One, NoDesc),
               Transaction(3, "SELL", "AAPL", R(75), R(170), Zero, One, NoDesc) >>
  /\ calc_ret.current_prices = << [key |-> "AAPL", val |-> R(175)] >>
  /\ calc_ret.fx_rates = EmptyMap

C3_ExampleOutcome ==
  /\ C3_Position.realized_pnl = R(1500)
  /\ C3_Position.quantity = R(75)
  /\ C3_Position.unrealized_pnl = R(1375)

\* C3 as stated: for any buys and sells of one non-cash symbol with zero fees
\* and FX rates 1, the valued position has the FIFO realized P&L, quantity
\* bought minus sold, and unrealized P&L of the remaining lots.
C3_AsStated ==
  /\ C3_Case => C3_Outcome
  /\ C3_Example => C3_ExampleOutcome

\* C3 (amended): the same, for a symbol that is not an option symbol and a
\* list in which no sell, applied in date order, exceeds the quantity then
\* held.  [buy 100@150, buy 50@160, sell 75@170] valued at 175 gives realized
\* 1500, quantity 75 and unrealized 1375.
C3_FifoPosition ==
  /\ (C3_Case /\ ~is_option_symbol(txns[1].symbol) /\ NoSellExceedsHeld) => C3_Outcome
  /\ C3_Example => C3_ExampleOutcome

C3_Witness == C3_Example /\ C3_Case /\ NoSellExceedsHeld

\* ---- C4 ----------------------------------------------------------------
C4_Difference == RSub(rr.calculated_value, rr.expected_value)
C4_WithinTolerance ==
  Abs(C4_Difference[1]) * rr.tolerance[2] <= rr.tolerance[1] * C4_Difference[2]

\* C4: a constructed ReconciliationResult has difference = calculated -
\* expected and status PASS exactly when |difference| <= tolerance (the
\* bound included), FAIL otherwise, and never WARNING or N/A; 100.004
\* against 100.00 at tolerance 0.01 is a PASS and 100.02 is a FAIL.
C4_ResultStatus ==
  rr.op = "ReconciliationResult" =>
    /\ rr.result.difference = C4_Difference
    /\ rr.result.status \in {"PASS", "FAIL"}
    /\ (rr.result.status = "PASS") <=> C4_WithinTolerance
    /\ ( /\ rr.expected_value = R(100)
         /\ rr.tolerance = RDiv(R(1), R(100)) ) =>
         /\ rr.calculated_value = RDiv(R(100004), R(1000)) => rr.result.status = "PASS"
         /\ rr.calculated_value = RDiv(R(10002), R(100)) => rr.result.status = "FAIL"

\* a result whose difference is exactly the (positive) tolerance
C4_Witness ==
  /\ rr.op = "ReconciliationResult"
  /\ RLt(Zero, rr.tolerance)
  /\ RAbs(rr.result.difference) = rr.tolerance
  /\ rr.result.status = "PASS"

\* ---- C5 ----------------------------------------------------------------
HasStatus(r, status) == \E i \in 1..Len(r.results) : r.results[i].status = status

C5_WitnessFailed ==
  /\ recon_last.op = "add_result"
  /\ recon_last.result.status = "PASS"
  /\ HasStatus(recon, "FAIL")
  /\ ~is_fully_reconciled(recon)

\* ---- C10 ---------------------------------------------------------------
Restrict(d, S) == SelectSeq(d, LAMBDA e : e.key \in S)
C10_Positions == recon_last.portfolio_pnl.positions
C10_ExpectedPositions == Get(recon_last.expected, "positions", EmptyMap)
C10_Common == Keys(C10_Positions) \cap Keys(C10_ExpectedPositions)
C10_Added ==
  SubSeq(recon.results, Len(recon_last.pre.results) + 1, Len(recon.results))

\* C10: _reconcile_positions adds results only for symbols that are both a
\* calculated position and a key of expected["positions"]; a symbol on one
\* side only yields no result, so the reconciliation ends exactly as it
\* would with those symbols removed from both sides (same results, same
\* counters, same is_fully_reconciled).
C10_OnlyCommonSymbols ==
  recon_last.op = "reconcile_positions" =>
    /\ \A i \in 1..Len(C10_Added) : C10_Added[i].symbol \in C10_Common
    /\ recon = reconcile_positions(recon_last.pre,
                 [recon_last.portfolio_pnl EXCEPT
                    !.positions = Restrict(@, C10_Common)],
                 IF Has(recon_last.expected, "positions")
                 THEN Put(recon_last.expected, "positions",
                          Restrict(C10_ExpectedPositions, C10_Common))
                 ELSE recon_last.expected)

\* a calculated position without expected values, an expected symbol that
\* is not held, and a symbol on both sides that was compared
C10_Witness ==
  /\ recon_last.op = "reconcile_positions"
  /\ Keys(C10_Positions) \ Keys(C10_ExpectedPositions) # {}
  /\ Keys(C10_ExpectedPositions) \ Keys(C10_Positions) # {}
  /\ Len(C10_Added) > 0

\* ---- C8 ----------------------------------------------------------------
C8_Amounts == [i \in 1..Len(xirr.cash_flows) |-> xirr.cash_flows[i].amount]
C8_Insufficient ==
  \/ Len(xirr.cash_flows) < 2
  \/ ~\E i \in 1..Len(C8_Amounts) : C8_Amounts[i][1] > 0
  \/ ~\E i \in 1..Len(C8_Amounts) : C8_Amounts[i][1] < 0

\* C8: called with fewer than two cash flows, with no strictly positive
\* amount, or with no strictly negative amount, calculate_xirr returns None
\* at once: no Newton-Raphson step is taken and no alternative guess is
\* tried.
C8_XirrRejectsAtOnce ==
  (xirr.pc # "idle" /\ C8_Insufficient) =>
    /\ xirr.pc = "returned"
    /\ xirr.result = None
    /\ ~xirr.stepped
    /\ xirr.iteration = 0
    /\ xirr.attempt = 0

\* two or more cash flows, one of them positive and one zero, none negative
C8_Witness ==
  /\ xirr.pc = "returned"
  /\ Len(xirr.cash_flows) >= 2
  /\ \E i \in 1..Len(C8_Amounts) : C8_Amounts[i][1] > 0
  /\ \E i \in 1..Len(C8_Amounts) : C8_Amounts[i][1] = 0
  /\ C8_Insufficient
  /\ xirr.result = None

\* ---- C9 ----------------------------------------------------------------
\* the entry sorting by date puts first (last): the earliest (latest) date,
\* and among equal dates the first (last) of the caller's list
C9_First(dv) ==
  CHOOSE i \in 1..Len(dv) :
    \A j \in 1..Len(dv) :
      dv[i].date < dv[j].date \/ (dv[i].date = dv[j].date /\ i <= j)
C9_Last(dv) ==
  CHOOSE i \in 1..Len(dv) :
    \A j \in 1..Len(dv) :
      dv[j].date < dv[i].date \/ (dv[i].date = dv[j].date /\ j <= i)
C9_Simple(start_value, end_value) ==
  RDiv(RSub(end_value, start_value), start_value)

C9_DailyCase ==
  /\ twr_ret.op = "calculate_twr"
  /\ twr_ret.cash_flows = << >>
  /\ \A i \in 1..Len(twr_ret.pre) : twr_ret.pre[i].cash_flow = Zero
  /\ Len(twr_ret.pre) >= 1
  /\ twr_ret.pre[C9_First(twr_ret.pre)].value # Zero
C9_DailyOutcome ==
  twr_ret.ret = C9_Simple(twr_ret.pre[C9_First(twr_ret.pre)].value,
                          twr_ret.pre[C9_Last(twr_ret.pre)].value)
C9_TransactionsCase ==
  /\ twr_ret.op = "calculate_twr_from_transactions"
  /\ twr_ret.cash_flows = << >>
  /\ twr_ret.start_value # Zero
C9_TransactionsOutcome ==
  twr_ret.ret = C9_Simple(twr_ret.start_value, twr_ret.end_value)

C9_WitnessTransactions ==
  /\ C9_TransactionsCase
  /\ twr_ret.start_date < twr_ret.end_date
  /\ twr_ret.ret = RDiv(R(1), R(10))


\* ---- C12 ---------------------------------------------------------------
\* every Lot object a queue has ever held, active or depleted
LotsOf(q) == {q.lot[i] : i \in 1..Len(q.lot)}
QueuesOf(d) == {d[i].val : i \in 1..Len(d)}
WithinAcquired(lot) ==
  /\ RLe(Zero, lot.remaining_quantity)
  /\ RLe(lot.remaining_quantity, lot.acquisition_quantity)
\* no lot of pre holds more in post
NoLotGrew(pre, post) == \A i \in 1..Len(pre.lot) : RLe(Qty(post, i), Qty(pre, i))

\* the queues of the calculator after each transaction it replayed, and the
\* queues of the service
C12_Queues ==
  UNION {QueuesOf(calc.steps[k].post) : k \in 1..Len(calc.steps)}
    \cup QueuesOf(calc.lot_queues) \cup QueuesOf(service.queues)

C12_ServiceSold ==
  /\ service_ret # NoCall
  /\ TransactionType_is_sell(service_ret.txn.transaction_type)

CountStatus(r, status) ==
  Cardinality({i \in 1..Len(r.results) : r.results[i].status = status})

C13_CountersMatch ==
  /\ recon.total_checks = Len(recon.results)
  /\ recon.passed_checks = CountStatus(recon, "PASS")
  /\ recon.failed_checks = CountStatus(recon, "FAIL")
  /\ recon.warning_checks = CountStatus(recon, "WARNING")
\* results holds what it held before the last call, then what the call added
C13_OrderKept ==
  /\ recon_last.op = "add_result" =>
       recon.results = Append(recon_last.pre.results, recon_last.result)
  /\ recon_last.op = "reconcile_positions" =>
       SubSeq(recon.results, 1, Len(recon_last.pre.results)) = recon_last.pre.results

C13_WitnessCounted ==
  /\ recon_last.op = "add_result"
  /\ Len(recon.results) >= 2
  /\ CountStatus(recon, "N/A") = 0
  /\ recon.warning_checks = 1
  /\ recon.total_checks =
       recon.passed_checks + recon.failed_checks + recon.warning_checks

\* ---- C15 ---------------------------------------------------------------
\* the orders in which a list of n entries can be handed over
Orders(n) == { p \in [1..n -> 1..n] : \A i, j \in 1..n : p[i] = p[j] => i = j }
Reordered(s, p) == [i \in 1..Len(s) |-> s[p[i]]]
\* entries of one date come in the reordered list as they come in s
KeepsSameDateOrder(s, p) ==
  \A i, j \in 1..Len(s) :
    (i < j /\ s[p[i]].transaction_date = s[p[j]].transaction_date) => p[i] < p[j]
SameLedger(c1, c2) ==
  /\ c1.lot_queues = c2.lot_queues
  /\ c1.income = c2.income
ReplayOf(transactions) == process_transactions(PnLCalculator_new, transactions).calc

\* C15: process_transactions applies the transactions in non-decreasing
\* date order, transactions of one date in their input order, so every
\* reordering of the input that keeps the relative order of same-date
\* transactions yields the same lot queues, realized P&L and income totals.
C15_StableDateOrder ==
  calc_ret # NoCall =>
    /\ \A k \in 1..(Len(Applied) - 1) :
         Applied[k].transaction_date <= Applied[k + 1].transaction_date
    /\ \E p \in Orders(Len(txns)) :
         KeepsSameDateOrder(txns, p) /\ Applied = Reordered(txns, p)
    /\ \A p \in Orders(Len(txns)) :
         KeepsSameDateOrder(txns, p) => SameLedger(ReplayOf(Reordered(txns, p)), calc)

\* an input that is not in date order and holds two transactions of one
\* date whose order matters: applied the other way round they leave a
\* different ledger
C15_Witness ==
  /\ calc_ret # NoCall
  /\ Applied # txns
  /\ \E p \in Orders(Len(txns)) :
       /\ ~KeepsSameDateOrder(txns, p)
       /\ \A i, j \in 1..Len(txns) :
            (i < j) => txns[p[i]].transaction_date <= txns[p[j]].transaction_date
       /\ ~SameLedger(ReplayOf(Reordered(txns, p)), calc)

\* ---- C16 ---------------------------------------------------------------
C16_Valued == calc_ret # NoCall /\ calc_ret.op = "calculate_unrealized_pnl"
\* the symbols the calculator holds lots of
Held == { s \in Keys(calc.lot_queues) : queue_truthy(At(calc.lot_queues, s)) }
\* the remaining cost basis of a queue, each lot at its acquisition FX rate
BasisAtAcquisitionFx(q) ==
  RSum([i \in 1..Len(q.lots) |->
          RMul(remaining_cost_basis(q.lot[q.lots[i]]),
               q.lot[q.lots[i]].acquisition_fx_rate)])
\* the value of the lots of a queue at a price and an FX rate
ValueAt(q, price, fx) ==
  RSum([i \in 1..Len(q.lots) |-> RMul(RMul(Qty(q, q.lots[i]), price), fx)])
C16_Unpriced == { s \in Held : ~Has(calc_ret.current_prices, s) }
C16_WithoutFx ==
  { s \in Held : Has(calc_ret.current_prices, s) /\ ~Has(calc_ret.fx_rates, s) }

\* C16: calculate_unrealized_pnl with a price map that lacks a held symbol
\* returns a portfolio in which that position has current_price 0,
\* market_value 0 and unrealized_pnl minus its remaining cost basis at the
\* lots' acquisition FX rates; a held symbol without an FX rate is valued
\* at FX rate 1.
C16_MissingPriceIsZero ==
  C16_Valued =>
    /\ Held \subseteq Keys(calc_ret.ret.positions)
    /\ \A s \in C16_Unpriced :
         LET p == At(calc_ret.ret.positions, s) IN
         /\ p.current_price = Zero
         /\ p.market_value = Zero
         /\ p.unrealized_pnl =
              RSub(Zero, BasisAtAcquisitionFx(At(calc.lot_queues, s)))
    /\ \A s \in C16_WithoutFx :
         LET p == At(calc_ret.ret.positions, s)
             q == At(calc.lot_queues, s)
             price == At(calc_ret.current_prices, s)
         IN  /\ p.market_value = RMul(p.quantity, price)
             /\ p.unrealized_pnl =
                  RSub(ValueAt(q, price, One), BasisAtAcquisitionFx(q))

\* a held lot bought at FX rate 2 is valued without a price: the position
\* is worth 0 and its unrealized P&L is minus twice the lot's cost
C16_Witness ==
  /\ C16_Valued
  /\ \E s \in C16_Unpriced :
       LET q == At(calc.lot_queues, s) IN
       /\ \E i \in Range(q.lots) : q.lot[i].acquisition_fx_rate = R(2)
       /\ RLt(At(calc_ret.ret.positions, s).unrealized_pnl, Zero)
       /\ At(calc_ret.ret.positions, s).unrealized_pnl =
            RSub(Zero, RMul(R(2), total_cost_basis(q)))

\* a held symbol priced without an FX rate
C16_WitnessNoFx ==
  /\ C16_Valued
  /\ \E s \in C16_WithoutFx : RLt(Zero, At(calc_ret.ret.positions, s).market_value)

\* ---- C17 ---------------------------------------------------------------
\* the lots the last call took out of the deque _lots
Dropped == { i \in Range(qlast.pre.lots) : i \notin Range(queue.lots) }
Logged(q, i) == \E k \in 1..Len(q.disposed_lots) : q.disposed_lots[k].lot = i

\* C17 as stated: no call removes a lot from the lot collection of a
\* LotQueue; a lot that dispose_fifo depleted is still in it.
C17_AsStated ==
  qlast # NoCall => Dropped = {}

\* C17 (amended): add_lot removes no lot; dispose_fifo ends by rebuilding
\* the deque without the depleted lots, so the lots it leaves are exactly
\* the lots that still hold something, in their old order.  A lot that a
\* disposal emptied is out of the deque and stays referenced, with
\* remaining quantity 0, by the disposal history.
C17_DepletedLotsLeaveDeque ==
  /\ qlast.op = "add_lot" =>
       queue.lots = Append(qlast.pre.lots, Len(qlast.pre.lot) + 1)
  /\ qlast.op = "dispose_fifo" =>
       /\ queue.lots = SelectSeq(qlast.pre.lots, LAMBDA i : ~is_depleted(queue.lot[i]))
       /\ \A i \in Dropped :
            /\ Qty(queue, i) = Zero
            /\ RLt(Zero, Qty(qlast.pre, i)) => Logged(queue, i)
  /\ \A i \in Range(queue.lots) :
       qlast.op = "dispose_fifo" => RLt(Zero, Qty(queue, i))

\* a disposal emptied the oldest lot and took part of the next: the first
\* has left the deque and is in the disposal history, the second remains
C17_Witness ==
  /\ qlast.op = "dispose_fifo"
  /\ Len(qlast.pre.lots) >= 2
  /\ qlast.pre.lots[1] \in Dropped
  /\ RLt(Zero, Qty(qlast.pre, qlast.pre.lots[1]))
  /\ Logged(queue, qlast.pre.lots[1])
  /\ queue.lots # << >>
  /\ RLt(Qty(queue, queue.lots[1]), Qty(qlast.pre, queue.lots[1]))

\* ---- C18 ---------------------------------------------------------------
\* every entry get_disposal_history returned for pre is returned unchanged,
\* at the same index, for post
HistoryKept(pre, post) ==
  LET h == get_disposal_history(pre)
      g == get_disposal_history(post)
  IN  /\ Len(h) <= Len(g)
      /\ \A k \in 1..Len(h) : g[k] = h[k]

\* the entries of the history of pre whose acquisition price reads
\* differently in post
Repriced(pre, post) ==
  { k \in 1..Len(pre.disposed_lots) :
      get_disposal_history(post)[k].acquisition_price
        # get_disposal_history(pre)[k].acquisition_price }

\* C18: the disposal history of a LotQueue is append-only: every entry
\* returned by get_disposal_history (lot identity, acquisition date,
\* acquisition price, quantity disposed, realized P&L, disposal date) is
\* returned unchanged at the same index after any further buy, disposal or
\* stock split on the symbol.
C18_AsStated ==
  /\ qlast # NoCall => HistoryKept(qlast.pre, queue)
  /\ \A k \in 1..Len(calc.steps) :
       Has(calc.steps[k].pre, calc.steps[k].txn.symbol) =>
         HistoryKept(StepPre(calc.steps[k]), StepPost(calc.steps[k]))
  /\ (service_ret # NoCall /\ Has(service_ret.pre.queues, service_ret.txn.symbol)) =>
       HistoryKept(At(service_ret.pre.queues, service_ret.txn.symbol),
                   At(service.queues, service_ret.txn.symbol))

\* the calculator replayed buy 100 @ 150, sell 75, split: the entry of the
\* sale, written with acquisition price 150, reads another price after the
\* split, with its quantity and realized P&L as they were
C18_Witness ==
  \E k \in CalcSplitSteps :
    LET pre  == StepPre(calc.steps[k])
        post == StepPost(calc.steps[k])
    IN  /\ Len(pre.disposed_lots) = 1
        /\ post.disposed_lots = pre.disposed_lots
        /\ get_disposal_history(pre)[1].acquisition_price = R(150)
        /\ Repriced(pre, post) = {1}
        /\ get_disposal_history(post)[1].quantity_disposed = R(75)

\* ---- C19 ---------------------------------------------------------------
\* every lot of pre has in post the cost per unit it had
CostPerUnitKept(pre, post) ==
  \A i \in 1..Len(pre.lot) : cost_per_unit(post.lot[i]) = cost_per_unit(pre.lot[i])
\* every lot of the deque has its cost per unit divided by ratio, the lots
\* that have left the deque keep theirs
CostPerUnitDivided(pre, post, ratio) ==
  \A i \in 1..Len(pre.lot) :
    IF i \in Range(pre.lots)
    THEN RMul(cost_per_unit(post.lot[i]), ratio) = cost_per_unit(pre.lot[i])
    ELSE cost_per_unit(post.lot[i]) = cost_per_unit(pre.lot[i])
SplitRatio(pre, n) == RDiv(RAdd(total_quantity(pre), n), total_quantity(pre))

C19_ServicePre == Get(service_ret.pre.queues, service_ret.txn.symbol, LotQueue_new)
C19_ServicePost == Get(service.queues, service_ret.txn.symbol, LotQueue_new)

\* C19 as stated: a lot's cost_per_unit has the value it had at creation in
\* every later state, after any disposals and stock splits on its symbol.
C19_AsStated ==
  /\ qlast # NoCall => CostPerUnitKept(qlast.pre, queue)
  /\ \A k \in 1..Len(calc.steps) :
       CostPerUnitKept(StepPre(calc.steps[k]),
                       Get(calc.steps[k].post, calc.steps[k].txn.symbol, LotQueue_new))
  /\ service_ret # NoCall => CostPerUnitKept(C19_ServicePre, C19_ServicePost)

\* C19 (amended): a lot's cost_per_unit is unchanged by every disposal, and
\* by every other transaction except a stock split; a stock split of n new
\* shares on a symbol holding Q > 0 divides the cost_per_unit of every lot
\* still in the queue by (Q + n) / Q.
C19_CostPerUnit ==
  /\ qlast # NoCall => CostPerUnitKept(qlast.pre, queue)
  /\ \A k \in 1..Len(calc.steps) :
       LET st   == calc.steps[k]
           pre  == StepPre(st)
           post == Get(st.post, st.txn.symbol, LotQueue_new)
       IN  IF k \in CalcSplitSteps
           THEN CostPerUnitDivided(pre, post, SplitRatio(pre, st.txn.quantity))
           ELSE CostPerUnitKept(pre, post)
  /\ service_ret # NoCall =>
       IF ServiceSplit
       THEN CostPerUnitDivided(C19_ServicePre, C19_ServicePost,
                               SplitRatio(C19_ServicePre, service_ret.txn.quantity))
       ELSE CostPerUnitKept(C19_ServicePre, C19_ServicePost)

\* a lot bought at 150 a share is split and then partly sold: the split
\* lowered its cost per unit, the sale left it alone
C19_Witness ==
  \E k \in CalcSplitSteps :
    /\ k < Len(calc.steps)
    /\ RoutedToSell(calc.steps[k + 1].txn)
    /\ LET pre  == StepPre(calc.steps[k])
           post == StepPost(calc.steps[k])
           sold == StepPost(calc.steps[k + 1])
       IN  /\ Len(pre.lot) = 1
           /\ cost_per_unit(pre.lot[1]) = R(150)
           /\ RLt(cost_per_unit(post.lot[1]), R(150))
           /\ RLt(Zero, Qty(sold, 1))
           /\ RLt(Qty(sold, 1), Qty(post, 1))
           /\ cost_per_unit(sold.lot[1]) = cost_per_unit(post.lot[1])

\* ---- C20 ---------------------------------------------------------------
\* a buy, sell or stock split on a symbol that is neither cash nor an option
C20_InDomain(t) ==
  /\ t.transaction_type \in {"BUY", "SELL", "STOCK_SPLIT"}
  /\ ~is_cash_symbol(t.symbol)
  /\ ~is_option_symbol(t.symbol)
\* both components have been given the whole of txns, in the same order
C20_BothFed ==
  /\ calc_ret # NoCall
  /\ fed = Len(txns)
  /\ sorted_by_date(txns) = txns
  /\ \A k \in 1..Len(txns) : C20_InDomain(txns[k])
C20_Symbols == { txns[k].symbol : k \in 1..Len(txns) }
C20_CalcQueue(s) == Get(calc.lot_queues, s, LotQueue_new)
C20_ServiceQueue(s) == Get(service.queues, s, LotQueue_new)
\* remaining quantities, realized P&L and disposal history of two queues agree
SameLotState(a, b) ==
  /\ [i \in 1..Len(a.lots) |-> a.lot[a.lots[i]].remaining_quantity]
       = [i \in 1..Len(b.lots) |-> b.lot[b.lots[i]].remaining_quantity]
  /\ a.realized_pnl = b.realized_pnl
  /\ get_disposal_history(a) = get_disposal_history(b)
\* some sell of txns asks for more than the symbol holds when it is applied
C20_Oversold ==
  \E k \in 1..Len(calc.steps) :
    /\ RoutedToSell(calc.steps[k].txn)
    /\ RLt(total_quantity(StepPre(calc.steps[k])), calc.steps[k].txn.quantity)

\* C20 as stated: after the same buys, sells and stock splits on non-cash,
\* non-option symbols, fed in the same order, LotTrackingService and
\* PnLCalculator hold the same lot state for every symbol, a sell of more
\* than is held included.
C20_AsStated ==
  C20_BothFed => \A s \in C20_Symbols : SameLotState(C20_CalcQueue(s), C20_ServiceQueue(s))

\* the two agree whenever no sell asks for more than is held
C20_AgreeWithoutOversell ==
  (C20_BothFed /\ ~C20_Oversold) =>
    \A s \in C20_Symbols : SameLotState(C20_CalcQueue(s), C20_ServiceQueue(s))

\* buy 100 @ 150 then sell 200 @ 170: the calculator has sold the 100 held
\* for a realized 2000, the service has returned a warning and sold nothing
C20_Witness ==
  /\ C20_BothFed
  /\ C20_Oversold
  /\ total_quantity(C20_CalcQueue("AAPL")) = Zero
  /\ C20_CalcQueue("AAPL").realized_pnl = R(2000)
  /\ total_quantity(C20_ServiceQueue("AAPL")) = R(100)
  /\ C20_ServiceQueue("AAPL").realized_pnl = Zero
  /\ service_ret.ret.action = "sell_warning"

\* ---- C11 ---------------------------------------------------------------
\* the portfolio-level results of a run: those filed under no symbol
PortfolioLevel(run) == SelectSeq(run.recon.results, LAMBDA r : r.symbol = NoSymbol)
ResultsNamed(run, name) == SelectSeq(PortfolioLevel(run), LAMBDA r : r.metric_name = name)
\* the reconciled metrics: the name of the result, the keys of the expected
\* values that ask for it (the first one present is compared), the field
\* of the calculated metrics
Metrics ==
  { [name |-> "XIRR", keys |-> << "xirr", "irr" >>, field |-> "xirr"],
    [name |-> "TWR", keys |-> << "twr" >>, field |-> "twr"],
    [name |-> "Realized P&L", keys |-> << "realized_pnl" >>, field |-> "realized_pnl"],
    [name |-> "Unrealized P&L", keys |-> << "unrealized_pnl" >>, field |-> "unrealized_pnl"],
    [name |-> "Total P&L", keys |-> << "total_pnl" >>, field |-> "total_pnl"],
    [name |-> "Market Value", keys |-> << "market_value" >>, field |-> "total_market_value"],
    [name |-> "Cost Basis", keys |-> << "cost_basis" >>, field |-> "total_cost_basis"] }
Asked(run, m) == \E i \in 1..Len(m.keys) : Has(run.input.expected_values, m.keys[i])
ExpectedFor(run, m) ==
  At(run.input.expected_values,
     m.keys[CHOOSE i \in 1..Len(m.keys) :
              /\ Has(run.input.expected_values, m.keys[i])
              /\ \A j \in 1..(i - 1) : ~Has(run.input.expected_values, m.keys[j])])
Available(run, m) == run.calculated_metrics[m.field] # None
CriticalIssues(run) ==
  \E i \in 1..Len(run.recon.data_quality_issues) :
    run.recon.data_quality_issues[i].severity = "critical"

\* C11: a run adds a portfolio-level result for a metric exactly when the
\* expected values hold the metric's key and the calculated value is
\* available; the result then compares the calculated with the expected
\* value.  A missing key, or an XIRR or TWR of None, adds no result for the
\* metric, hence no FAIL.  The only other portfolio-level result is the
\* data_quality flag, present exactly when the transactions have a critical
\* data-quality issue.
C11_ResultIffExpectedAndAvailable ==
  \A k \in 1..Len(runs) :
    /\ \A m \in Metrics :
         IF Asked(runs[k], m) /\ Available(runs[k], m)
         THEN /\ Len(ResultsNamed(runs[k], m.name)) = 1
              /\ ResultsNamed(runs[k], m.name)[1].calculated_value
                   = runs[k].calculated_metrics[m.field]
              /\ ResultsNamed(runs[k], m.name)[1].expected_value = ExpectedFor(runs[k], m)
         ELSE ResultsNamed(runs[k], m.name) = << >>
    /\ \A i \in 1..Len(PortfolioLevel(runs[k])) :
         PortfolioLevel(runs[k])[i].metric_name
           \in { m.name : m \in Metrics } \cup { "data_quality" }
    /\ Len(ResultsNamed(runs[k], "data_quality"))
         = (IF CriticalIssues(runs[k]) THEN 1 ELSE 0)

\* a run asked for XIRR and TWR whose solver found no XIRR: it has a TWR
\* result, no XIRR result and no failed check
C11_Witness ==
  \E k \in 1..Len(runs) :
    /\ Has(runs[k].input.expected_values, "xirr")
    /\ Has(runs[k].input.expected_values, "twr")
    /\ Len(runs[k].input.transactions) = 3
    /\ runs[k].calculated_metrics.xirr = None
    /\ runs[k].calculated_metrics.twr # None
    /\ Len(ResultsNamed(runs[k], "TWR")) = 1
    /\ ResultsNamed(runs[k], "XIRR") = << >>
    /\ runs[k].recon.failed_checks = 0
    /\ runs[k].recon.total_checks = 6

\* a run asked for nothing although every metric was calculated: no result
C11_WitnessNotAsked ==
  \E k \in 1..Len(runs) :
    /\ runs[k].input.expected_values = EmptyMap
    /\ runs[k].calculated_metrics.xirr # None
    /\ runs[k].calculated_metrics.twr # None
    /\ runs[k].recon.results = << >>

\* ---- C14 ---------------------------------------------------------------
\* what a run returned: the results, counters and issues, and the metrics
Returned(run) == << run.recon, run.calculated_metrics >>
\* the lots, realized P&L and income a service has accumulated
Accumulated(rs) ==
  \/ rs.pnl_calculator.lot_queues # EmptyMap
  \/ rs.pnl_calculator.income # NoIncome

\* C14: two runs with identical inputs return identical results, counters
\* and calculated metrics, whether each runs on a fresh service or one
\* follows the other on the same service: every run returns what a fresh
\* service returns for its input, and leaves the service's ledger as a fresh
\* service's run on that input leaves it.
C14_RunsReproducible ==
  /\ \A i, j \in 1..Len(runs) :
       runs[i].input = runs[j].input => Returned(runs[i]) = Returned(runs[j])
  /\ \A k \in 1..Len(runs) :
       \A fresh \in { run_reconciliation(ReconciliationService_new, runs[k].input, newton) } :
         /\ runs[k].recon = fresh.recon
         /\ runs[k].calculated_metrics = fresh.calculated_metrics
         /\ k < Len(runs) =>
              runs[k + 1].pre \in { fresh.service, ReconciliationService_new }
         /\ k = Len(runs) =>
              reconciliation_service \in { fresh.service, ReconciliationService_new }

\* the same input run twice on one service: the second run found the lots
\* and the realized P&L of the first in the service, and returned the same
C14_Witness ==
  /\ Len(runs) = 2
  /\ runs[1].input = runs[2].input
  /\ Len(runs[1].input.transactions) = 3
  /\ Accumulated(runs[2].pre)
  /\ At(runs[2].pre.pnl_calculator.lot_queues, "AAPL").realized_pnl = R(1500)
  /\ runs[2].calculated_metrics.realized_pnl = R(1500)
  /\ runs[2].calculated_metrics.total_cost_basis = R(3750)
  /\ Returned(runs[1]) = Returned(runs[2])

\* the same input run on two fresh services
C14_WitnessFresh ==
  /\ Len(runs) = 2
  /\ runs[1].input = runs[2].input
  /\ Len(runs[1].input.transactions) = 3
  /\ runs[1].pre = ReconciliationService_new
  /\ runs[2].pre = ReconciliationService_new
  /\ Returned(runs[1]) = Returned(runs[2])

\* ---- C21 ---------------------------------------------------------------
\* the ledger replay of a run's transactions
ReplayOfRun(run) == process_transactions(PnLCalculator_new, run.input.transactions).calc.steps
\* some sell of the replay asked for more than the symbol held
OversoldIn(steps) ==
  \E k \in 1..Len(steps) :
    /\ RoutedToSell(steps[k].txn)
    /\ RLt(total_quantity(StepPre(steps[k])), steps[k].txn.quantity)
\* the oversell is visible in what the run returned
OversellVisible(run) ==
  /\ CriticalIssues(run)
  /\ Len(ResultsNamed(run, "data_quality")) = 1
  /\ ResultsNamed(run, "data_quality")[1].status = "FAIL"
NoNegativeQuantity(run) ==
  \A i \in 1..Len(run.input.transactions) : RLe(Zero, run.input.transactions[i].quantity)

\* C21 as stated: whenever the ledger replay of a run executes a sell that
\* disposes less than it asked for, the run reports a critical data-quality
\* issue and a data_quality result.
C21_AsStated ==
  \A k \in 1..Len(runs) :
    \A steps \in { ReplayOfRun(runs[k]) } :
      OversoldIn(steps) => OversellVisible(runs[k])

\* the oversell is reported whenever no transaction has a negative quantity
C21_VisibleWithoutNegativeQuantity ==
  \A k \in 1..Len(runs) :
    \A steps \in { ReplayOfRun(runs[k]) } :
      (OversoldIn(steps) /\ NoNegativeQuantity(runs[k])) => OversellVisible(runs[k])

\* buy 100, reverse split of -50, sell 100: the ledger held 50 when the
\* sell came and sold 50, and the run reports no issue and no result
C21_Witness ==
  \E k \in 1..Len(runs) :
    /\ runs[k].input.transactions = << BuyAAPL, ReverseSplit50, Sell100 >>
    /\ \A steps \in { ReplayOfRun(runs[k]) } :
         /\ OversoldIn(steps)
         /\ total_quantity(StepPre(steps[3])) = R(50)
         /\ total_quantity(StepPost(steps[3])) = Zero
    /\ runs[k].recon.data_quality_issues = << >>
    /\ runs[k].recon.results = << >>

\* buy 100, sell 200: the oversell is reported
C21_WitnessReported ==
  \E k \in 1..Len(runs) :
    /\ runs[k].input.transactions = << BuyAAPL, Sell200 >>
    /\ OversoldIn(ReplayOfRun(runs[k]))
    /\ OversellVisible(runs[k])

\* ---- C22 ---------------------------------------------------------------
\* calculate_xirr runs to its return once called: the loops are plain
\* sequential code, so a step that stays possible is eventually taken
SolverStep ==
  \/ \E o \in NewtonOutcomes : NewtonStep(o)
  \/ NewtonExhausted
  \/ \E o \in TryConvergeOutcomes : TryConvergeStep(o)
  \/ TryConvergeExhausted

SpecXirrFair == XirrInit /\ [][XirrNext]_vars /\ WF_vars(SolverStep)

\* the guesses of the claim, in its order
C22_Guesses ==
  << RDiv(R(-5), R(10)), RDiv(R(5), R(10)), RDiv(R(1), R(100)),
     RDiv(R(-1), R(100)), RDiv(R(10), R(10)), RDiv(R(-9), R(10)) >>

\* an attempt is running: the primary one (attempt 0) or an alternative
C22_Solving == xirr.pc \in {"newton", "alternate"}

\* a step that starts an attempt: only after an attempt that did not
\* converge (the primary one after all its iterations), and it is the next
\* guess of the list
C22_StartsNextGuess ==
  (xirr'.pc = "alternate" /\ xirr'.attempt # xirr.attempt) =>
     /\ C22_Solving
     /\ xirr.result = None /\ xirr'.result = None
     /\ xirr.pc = "newton" => (xirr.attempt = 0 /\ xirr.iteration = irr_max_iterations)
     /\ xirr'.attempt = xirr.attempt + 1
     /\ xirr'.attempt \in 1..Len(C22_Guesses)
     /\ alt_guesses[xirr'.attempt] = C22_Guesses[xirr'.attempt]
     /\ xirr'.iteration = 0

\* a step that returns: a rate is the rate of the attempt that was running,
\* None comes after the last guess of the list, and nothing runs afterwards
C22_Returns ==
  /\ (C22_Solving /\ xirr'.pc = "returned") =>
        /\ xirr'.attempt = xirr.attempt
        /\ xirr'.result # None => xirr'.result = Converged(xirr.attempt)
        /\ xirr'.result = None =>
              (xirr.pc = "alternate" /\ xirr.attempt = Len(C22_Guesses))
  /\ xirr.pc = "returned" => xirr' = xirr

\* no attempt takes more than max_iterations steps
C22_Bounded ==
  /\ xirr.iteration \in 0..irr_max_iterations
  /\ xirr.attempt \in 0..Len(C22_Guesses)
  /\ xirr.pc = "newton" => xirr.attempt = 0
  /\ xirr.pc = "alternate" => xirr.attempt >= 1

\* C22: once calculate_xirr iterates, the alternative guesses are tried
\* only after the primary attempt used up its iterations without
\* converging, one after the other in the order -0.5, 0.5, 0.01, -0.01,
\* 1.0, -0.9; the rate of the first attempt that converges is returned and
\* no later guess is tried; None is returned only once the last guess has
\* failed; every attempt takes at most max_iterations steps, and the call
\* always returns.
C22_AlternatesInOrderAndTerminates ==
  /\ [][C22_StartsNextGuess /\ C22_Returns]_vars
  /\ []C22_Bounded
  /\ (C22_Solving ~> xirr.pc = "returned")

\* the third alternative guess converged after the primary attempt and two
\* alternatives failed
C22_Witness ==
  /\ xirr.pc = "returned"
  /\ xirr.result = Converged(3)
  /\ xirr.attempt = 3

\* every guess failed
C22_WitnessNone ==
  /\ xirr.pc = "returned"
  /\ xirr.stepped
  /\ xirr.result = None
  /\ xirr.attempt = Len(alt_guesses)


\* ---- C23 ---------------------------------------------------------------
\* the list calculate_twr worked on, and the places where a sub-period
\* starts: the first value and every later value with a cash flow
C23_Sorted == sorted_values(apply_cash_flows(twr_ret.pre, twr_ret.cash_flows))
C23_Breaks == {1} \cup { i \in 2..Len(C23_Sorted) : C23_Sorted[i].cash_flow # Zero }
C23_Before(i) == CHOOSE j \in C23_Breaks : j < i /\ \A k \in C23_Breaks : k < i => k <= j
\* the sub-periods as (start, end, cash flow): one ending at each cash
\* flow, and the rest of the list after the last one
C23_Periods ==
  { << C23_Before(i), i, C23_Sorted[i].cash_flow >> : i \in C23_Breaks \ {1} }
    \cup { << j, Len(C23_Sorted), Zero >> :
             j \in { b \in C23_Breaks : b < Len(C23_Sorted) /\ \A k \in C23_Breaks : k <= b } }

\* calculate_twr met a zero denominator: start value (plus weighted cash
\* flow) of some sub-period is zero
C23_DailyZeroDenominator ==
  /\ twr_ret # NoCall
  /\ twr_ret.op = "calculate_twr"
  /\ Len(twr_ret.pre) >= 2
  /\ \E p \in C23_Periods :
       sub_period_denominator(C23_Sorted[p[1]], C23_Sorted[p[2]], p[3]) = Zero

\* calculate_twr_from_transactions met a zero denominator
C23_TransactionsZeroDenominator ==
  /\ twr_ret # NoCall
  /\ twr_ret.op = "calculate_twr_from_transactions"
  /\ twr_ret.end_date > twr_ret.start_date
  /\ IF twr_ret.cash_flows = << >> THEN twr_ret.start_value = Zero
     ELSE RAdd(twr_ret.start_value,
               weighted_cf(twr_ret.cash_flows, twr_ret.end_date,
                           twr_ret.end_date - twr_ret.start_date)) = Zero

\* C23 as stated: both TWR entry points return None whenever a required
\* denominator is zero: a zero start value with no cash flows, or start
\* value plus weighted cash flow equal to zero, for any sub-period of
\* calculate_twr and for the whole period of
\* calculate_twr_from_transactions.
C23_AsStated ==
  /\ C23_DailyZeroDenominator => twr_ret.ret = None
  /\ C23_TransactionsZeroDenominator => twr_ret.ret = None

\* what the code does: the start/end entry point returns None on a zero
\* denominator, the daily-values entry point returns a number
C23_OnlyStartEndReturnsNone ==
  /\ C23_TransactionsZeroDenominator => twr_ret.ret = None
  /\ C23_DailyZeroDenominator => twr_ret.ret # None

\* a zero start value and no cash flow: calculate_twr returns 0
C23_Witness ==
  /\ C23_DailyZeroDenominator
  /\ twr_ret.pre = << DailyValue(1, Zero, Zero), DailyValue(2, R(10500), Zero) >>
  /\ twr_ret.cash_flows = << >>
  /\ twr_ret.ret = Zero

\* a withdrawal of the whole start value: the first sub-period has a zero
\* denominator and calculate_twr returns the return of the second one
C23_WitnessSubPeriod ==
  /\ C23_DailyZeroDenominator
  /\ twr_ret.pre = << DailyValue(1, R(10000), Zero), DailyValue(2, R(10500), Zero),
                      DailyValue(3, R(11000), Zero) >>
  /\ twr_ret.cash_flows = << CashFlow(2, R(-10000)) >>
  /\ twr_ret.ret = RDiv(R(1), R(21))

\* the start/end entry point with a zero weighted denominator
C23_WitnessStartEnd ==
  /\ C23_TransactionsZeroDenominator
  /\ twr_ret.cash_flows = << CashFlow(1, R(-10000)) >>
  /\ twr_ret.ret = None


\* ---- C24 ---------------------------------------------------------------
\* the last call on the calculator was a valuation
C24_Valued == calc_ret # NoCall /\ calc_ret.op = "calculate_unrealized_pnl"
\* what process_transactions left and returned for the submitted list
C24_Replayed == process_transactions(PnLCalculator_new, txns)
C24_SamePosition(p, q) ==
  /\ p.symbol = q.symbol
  /\ p.quantity = q.quantity
  /\ p.cost_basis = q.cost_basis
  /\ p.realized_pnl = q.realized_pnl
  /\ p.average_cost = q.average_cost

\* after any number of valuations the ledger is the one the replay left,
\* the valued portfolio repeats the replay's quantities, cost bases,
\* realized P&L and income, and it is the valuation of that ledger under
\* the maps of the last call alone
C24_ValuationOfReplay ==
  C24_Valued =>
    \A r \in { C24_Replayed } :
      /\ calc = r.calc
      /\ Len(calc_ret.ret.positions) = Len(r.ret.positions)
      /\ \A i \in 1..Len(r.ret.positions) :
           /\ calc_ret.ret.positions[i].key = r.ret.positions[i].key
           /\ C24_SamePosition(calc_ret.ret.positions[i].val, r.ret.positions[i].val)
      /\ calc_ret.ret.realized_capital_gains = r.ret.realized_capital_gains
      /\ calc_ret.ret.total_cost_basis = r.ret.total_cost_basis
      /\ calc_ret.ret.gross_dividend_income = r.ret.gross_dividend_income
      /\ calc_ret.ret.option_premium_received = r.ret.option_premium_received
      /\ calc_ret.ret = calculate_unrealized_pnl(r.calc, calc_ret.current_prices,
                                                 calc_ret.fx_rates)

\* a step that ends in a valuation changes neither the ledger (queues,
\* lots, remaining quantities, realized P&L, disposal history, income
\* buckets, replayed steps) nor the transaction list
C24_LedgerKept == C24_Valued' => (calc' = calc /\ txns' = txns)

\* C24: calculate_unrealized_pnl does not replay transactions and leaves
\* the ledger unchanged (every queue's lots, remaining quantities, realized
\* P&L and disposal history, and the income buckets); the quantity, cost
\* basis and realized P&L it reports equal those reported by
\* process_transactions, and repeated valuations return results that
\* depend only on the price and FX maps of that call.
C24_ValuationLeavesLedger ==
  /\ []C24_ValuationOfReplay
  /\ [][C24_LedgerKept]_vars

\* a valuation with prices of a ledger that holds shares and has realized
\* a gain
C24_Witness ==
  /\ C24_Valued
  /\ calc_ret.current_prices # EmptyMap
  /\ \E i \in 1..Len(calc_ret.ret.positions) :
       /\ RLt(Zero, calc_ret.ret.positions[i].val.quantity)
       /\ calc_ret.ret.positions[i].val.realized_pnl # Zero
       /\ calc_ret.ret.positions[i].val.unrealized_pnl # Zero
       /\ Len(At(calc.lot_queues, calc_ret.ret.positions[i].key).disposed_lots) > 0


\* ---- C25 ---------------------------------------------------------------
\* the tolerances the claim names
C25_BasisPoint == RDiv(R(1), R(10000))
C25_Cent == RDiv(R(1), R(100))
C25_Dollar == R(1)
C25_Configured == { Tolerances[f] : f \in DOMAIN Tolerances }
C25_PnlNames == { "Realized P&L", "Unrealized P&L", "Total P&L" }
C25_Results == UNION { Range(runs[k].recon.results) : k \in 1..Len(runs) }

\* C25 as stated: every result of a run carries a tolerance of the
\* configuration: 0.0001 for XIRR and TWR, 0.01 for the position-level P&L
\* results and 1.00 for the portfolio-level realized, unrealized and total
\* P&L results.
C25_AsStated ==
  \A r \in C25_Results :
    /\ r.tolerance \in C25_Configured
    /\ r.metric_name \in {"XIRR", "TWR"} => r.tolerance = C25_BasisPoint
    /\ (r.symbol # NoSymbol /\ r.metric_name \in C25_PnlNames) => r.tolerance = C25_Cent
    /\ (r.symbol = NoSymbol /\ r.metric_name \in C25_PnlNames) => r.tolerance = C25_Dollar

\* the field of the configuration each metric is held to, by the name of
\* the result
C25_FieldOf(metric_name) ==
  CASE metric_name = "XIRR" -> "xirr"
    [] metric_name = "TWR" -> "twr"
    [] metric_name = "Realized P&L" -> "realized_pnl"
    [] metric_name = "Unrealized P&L" -> "unrealized_pnl"
    [] metric_name = "Total P&L" -> "total_pnl_portfolio"
    [] metric_name = "Market Value" -> "market_value"
    [] metric_name = "Cost Basis" -> "market_value"
    [] metric_name = "Quantity" -> "quantity"

\* C25: every result of a run but the data_quality flag carries the
\* tolerance the configuration gives for its metric, the same at portfolio
\* and at position level: 0.0001 for XIRR, TWR and quantity, 0.01 for
\* realized and unrealized P&L, market value and cost basis, 1.00 for the
\* portfolio's total P&L alone.  The data_quality flag carries the
\* tolerance 0 written at the call.
C25_ToleranceByMetric ==
  \A r \in C25_Results :
    IF r.metric_name = "data_quality" THEN r.tolerance = Zero
    ELSE /\ r.tolerance = Tolerances[C25_FieldOf(r.metric_name)]
         /\ r.metric_name \in {"XIRR", "TWR", "Quantity"} => r.tolerance = C25_BasisPoint
         /\ r.metric_name \in {"Realized P&L", "Unrealized P&L", "Market Value",
                               "Cost Basis"} => r.tolerance = C25_Cent
         /\ r.metric_name = "Total P&L" => (r.tolerance = C25_Dollar /\ r.symbol = NoSymbol)

\* a run with XIRR, TWR and the three portfolio-level P&L results, of
\* which only the total is held to a dollar
C25_Witness ==
  \E k \in 1..Len(runs) :
    /\ \E r \in Range(ResultsNamed(runs[k], "XIRR")) : r.tolerance = C25_BasisPoint
    /\ \E r \in Range(ResultsNamed(runs[k], "TWR")) : r.tolerance = C25_BasisPoint
    /\ \E r \in Range(ResultsNamed(runs[k], "Realized P&L")) : r.tolerance = C25_Cent
    /\ \E r \in Range(ResultsNamed(runs[k], "Unrealized P&L")) : r.tolerance = C25_Cent
    /\ \E r \in Range(ResultsNamed(runs[k], "Total P&L")) : r.tolerance = C25_Dollar

\* a run with a data_quality result and one with a position-level P&L
\* result
C25_WitnessDataQuality ==
  \E r \in C25_Results : r.metric_name = "data_quality" /\ r.tolerance = Zero
C25_WitnessPosition ==
  \E r \in C25_Results :
    r.symbol # NoSymbol /\ r.metric_name = "Unrealized P&L" /\ r.tolerance = C25_Cent


\* ---- C26 ---------------------------------------------------------------
\* the symbols of the transactions that contain '_OPQ' in some case
C26_OptionSymbols == { "QQQ_OPQ", "qqq_opq" }
C26_CashSymbols == { "USD", "usd", "EUR", "eur" }
C26_PremiumSale(txn) ==
  /\ IsSell(txn)
  /\ txn.symbol \in C26_OptionSymbols
  /\ RLt(Zero, txn.net_amount)
C26_OtherSale(txn) ==
  /\ IsSell(txn)
  /\ txn.symbol \notin C26_CashSymbols
  /\ ~C26_PremiumSale(txn)
\* the step changed no lot: every queue is as before, one made for the
\* symbol of the transaction is empty
C26_NoLotTouched(st) ==
  /\ \A s \in Keys(st.pre) : At(st.post, s) = At(st.pre, s)
  /\ \A s \in Keys(st.post) \ Keys(st.pre) : At(st.post, s) = LotQueue_new
\* the step disposed FIFO from the queue of the symbol: the quantity held
\* went down by the quantity sold, or to zero, one log entry per lot taken
\* from, and no other queue changed
C26_Disposed(st) ==
  LET pre == StepPre(st)
      post == StepPost(st)
      held == total_quantity(pre)
  IN  /\ total_quantity(post) = RSub(held, RMin(held, st.txn.quantity))
      /\ RLt(Zero, held) =>
           /\ Len(post.disposed_lots) > Len(pre.disposed_lots)
           /\ RSum([i \in 1..(Len(post.disposed_lots) - Len(pre.disposed_lots)) |->
                      post.disposed_lots[Len(pre.disposed_lots) + i].qty])
                = RMin(held, st.txn.quantity)
      /\ held = Zero => post = pre
      /\ \A s \in Keys(st.pre) \ { st.txn.symbol } : At(st.post, s) = At(st.pre, s)

\* C26: every sell-type transaction whose symbol contains '_OPQ' in any
\* case and whose net amount is positive adds exactly its net amount to the
\* option premium and disposes from no lot, whatever position is held;
\* every other sell of a non-cash symbol is routed to FIFO disposal and
\* adds nothing to the premium.
C26_OptionSaleIsPremium ==
  \A k \in 1..Len(calc.steps) :
    LET st == calc.steps[k] IN
    /\ C26_PremiumSale(st.txn) =>
         /\ st.income_post =
              [st.income_pre EXCEPT !.option_premium = RAdd(@, st.txn.net_amount)]
         /\ C26_NoLotTouched(st)
    /\ C26_OtherSale(st.txn) =>
         /\ st.income_post = st.income_pre
         /\ C26_Disposed(st)

\* an option is sold while two contracts of it are held: the premium is
\* booked net of the commission and the two contracts stay
C26_Witness ==
  \E k \in 1..Len(calc.steps) :
    /\ calc.steps[k].txn = SellOption
    /\ total_quantity(StepPre(calc.steps[k])) = R(2)
    /\ total_quantity(StepPost(calc.steps[k])) = R(2)
    /\ calc.steps[k].income_post.option_premium
         = RAdd(calc.steps[k].income_pre.option_premium, R(4))

\* an option sold at a net loss is disposed FIFO; a lower-case option symbol
\* books the premium
C26_WitnessOtherSale ==
  \E k \in 1..Len(calc.steps) :
    /\ calc.steps[k].txn = SellOptionAtLoss
    /\ total_quantity(StepPre(calc.steps[k])) = R(2)
    /\ total_quantity(StepPost(calc.steps[k])) = R(1)
C26_WitnessLowerCase ==
  \E k \in 1..Len(calc.steps) :
    /\ calc.steps[k].txn = SellOptionLower
    /\ calc.steps[k].income_post.option_premium
         = RAdd(calc.steps[k].income_pre.option_premium, R(5))


\* ---- C27 ---------------------------------------------------------------
C27_CashTrade(txn) ==
  /\ txn.symbol \in C26_CashSymbols
  /\ IsBuy(txn) \/ IsSell(txn) \/ txn.transaction_type = "STOCK_SPLIT"
C27_Income(txn) == txn.transaction_type \in { "DIVIDEND", "INTEREST", "COUPON" }
C27_Fee(txn) == txn.transaction_type \in { "FEE", "COMMISSION" }
C27_Expenses(income) ==
  RAdd(RAdd(income.withholding_tax, income.interest_expense), income.other_fees)
\* the step left the queues as they were: no queue made, no lot changed
C27_QueuesKept(st) == st.post = st.pre

\* C27: a buy, sell or split of a cash or currency symbol, in any case,
\* creates no lot queue and no position and changes no lot (nor any
\* income); a dividend, interest or coupon adds its net amount to its
\* income bucket and a fee or commission adds its amount to one expense
\* bucket, whatever the symbol, and they change no lot either.
C27_CashAndIncomeKeepLots ==
  /\ \A k \in 1..Len(calc.steps) :
       LET st == calc.steps[k] IN
       /\ C27_CashTrade(st.txn) =>
            (C27_QueuesKept(st) /\ st.income_post = st.income_pre)
       /\ C27_Income(st.txn) =>
            /\ C27_QueuesKept(st)
            /\ st.income_post =
                 IF st.txn.transaction_type = "DIVIDEND"
                 THEN [st.income_pre EXCEPT !.gross_dividend = RAdd(@, st.txn.net_amount)]
                 ELSE [st.income_pre EXCEPT !.gross_interest = RAdd(@, st.txn.net_amount)]
       /\ C27_Fee(st.txn) =>
            /\ C27_QueuesKept(st)
            /\ C27_Expenses(st.income_post)
                 = RAdd(C27_Expenses(st.income_pre), RAbs(st.txn.net_amount))
            /\ \E b \in { "withholding_tax", "interest_expense", "other_fees" } :
                 st.income_post = [st.income_pre EXCEPT
                                     ![b] = RAdd(@, RAbs(st.txn.net_amount))]
  /\ Keys(calc.lot_queues) \cap C26_CashSymbols = {}
  /\ (calc_ret # NoCall /\ calc_ret.op = "process_transactions") =>
       /\ Keys(calc_ret.ret.positions) \cap C26_CashSymbols = {}
       /\ Keys(calc_ret.ret.positions)
            = { calc.steps[k].txn.symbol : k \in { j \in 1..Len(calc.steps) :
                  /\ ~C27_CashTrade(calc.steps[j].txn)
                  /\ ~C27_Income(calc.steps[j].txn)
                  /\ ~C27_Fee(calc.steps[j].txn) } }

\* a cash buy, a lower-case cash sell and a dividend paid on a cash symbol:
\* no queue, no position, the dividend booked
C27_Witness ==
  /\ calc_ret # NoCall
  /\ Len(calc.steps) = 3
  /\ calc.steps[1].txn.transaction_type = "BUY" /\ calc.steps[1].txn.symbol = "USD"
  /\ calc.steps[2].txn.transaction_type = "SELL" /\ calc.steps[2].txn.symbol = "usd"
  /\ calc.steps[3].txn.transaction_type = "DIVIDEND" /\ calc.steps[3].txn.symbol = "USD"
  /\ calc.lot_queues = EmptyMap
  /\ calc_ret.ret.positions = << >>
  /\ calc.income.gross_dividend = R(20)

\* a fee and an interest payment on a held equity leave its lot as it was,
\* and a split of a currency does nothing
C27_WitnessHeld ==
  /\ Len(calc.steps) = 3
  /\ IsBuy(calc.steps[1].txn) /\ calc.steps[1].txn.symbol = "AAPL"
  /\ calc.steps[2].txn.transaction_type = "INTEREST"
  /\ calc.steps[3].txn.transaction_type = "FEE" /\ calc.steps[3].txn.symbol = "AAPL"
  /\ total_quantity(At(calc.lot_queues, "AAPL")) = R(100)
  /\ calc.income.gross_interest = R(7)
  /\ calc.income.other_fees = R(3)
C27_WitnessSplit ==
  \E k \in 1..Len(calc.steps) :
    /\ calc.steps[k].txn.transaction_type = "STOCK_SPLIT"
    /\ calc.steps[k].txn.symbol = "EUR"
    /\ calc.steps[k].pre # EmptyMap
C27_WitnessWithholding ==
  calc.income.withholding_tax = R(4)


\* ---- C28 ---------------------------------------------------------------
C28_Called == twr_ret # NoCall /\ twr_ret.op = "calculate_twr"

\* C28 as stated: calculate_twr does not modify the DailyValue objects of
\* the caller: after a call the list is as it was before it, and
\* calculate_twr(values) returns on it what it returns on a copy of the
\* values taken before the call.
C28_AsStated ==
  C28_Called =>
    /\ daily_values = twr_ret.pre
    /\ calculate_twr(daily_values, << >>).ret = calculate_twr(twr_ret.pre, << >>).ret

\* what the code does: a call without cash flows leaves the list as it
\* was; a call with cash flows leaves dates and values and writes the cash
\* flow of its date into each DailyValue
C28_OnlyCashFlowsWritten ==
  C28_Called =>
    /\ twr_ret.cash_flows = << >> => daily_values = twr_ret.pre
    /\ Len(daily_values) = Len(twr_ret.pre)
    /\ \A i \in 1..Len(daily_values) :
         /\ daily_values[i].date = twr_ret.pre[i].date
         /\ daily_values[i].value = twr_ret.pre[i].value
         /\ daily_values[i].cash_flow # twr_ret.pre[i].cash_flow =>
              /\ Len(twr_ret.pre) >= 2
              /\ \E j \in 1..Len(twr_ret.cash_flows) :
                   /\ twr_ret.cash_flows[j].date = daily_values[i].date
                   /\ twr_ret.cash_flows[j].amount = daily_values[i].cash_flow

\* calculate_twr(values, [(day 2, 1000)]) on values without cash flows:
\* the second DailyValue now carries the cash flow, and calculate_twr(values)
\* no longer returns the 10% it returns on a copy
C28_Witness ==
  /\ C28_Called
  /\ twr_ret.pre = << DailyValue(1, R(10000), Zero), DailyValue(2, R(10500), Zero),
                      DailyValue(3, R(11000), Zero) >>
  /\ twr_ret.cash_flows = << CashFlow(2, R(1000)) >>
  /\ daily_values[2].cash_flow = R(1000)
  /\ calculate_twr(twr_ret.pre, << >>).ret = RDiv(R(1), R(10))
  /\ calculate_twr(daily_values, << >>).ret # RDiv(R(1), R(10))

\* the later call without cash flows, made on the list the earlier call
\* wrote to
C28_WitnessSecondCall ==
  /\ C28_Called
  /\ twr_ret.cash_flows = << >>
  /\ twr_ret.pre = << DailyValue(1, R(10000), Zero), DailyValue(2, R(10500), R(1000)),
                      DailyValue(3, R(11000), Zero) >>
  /\ twr_ret.ret # RDiv(R(1), R(10))


\* ---- C29 ---------------------------------------------------------------
\* the places of the deque whose lot is partly disposed
C29_Partial ==
  { k \in 1..Len(queue.lots) :
      Qty(queue, queue.lots[k]) # queue.lot[queue.lots[k]].acquisition_quantity }

\* C29: in every LotQueue state reached by add_lot and dispose_fifo calls,
\* at most one lot held in the queue has a remaining quantity different
\* from its acquisition quantity, that lot is the first of the queue, and
\* every entry of the disposal history has a strictly positive
\* quantity_disposed.
C29_OnlyFirstLotPartial ==
  /\ Cardinality(C29_Partial) <= 1
  /\ C29_Partial \subseteq { 1 }
  /\ \A k \in C29_Partial : active_lots(queue)[1] = queue.lots[k]
  /\ \A i \in 1..Len(queue.disposed_lots) : RLt(Zero, queue.disposed_lots[i].qty)
  /\ \A i \in 1..Len(get_disposal_history(queue)) :
       RLt(Zero, get_disposal_history(queue)[i].quantity_disposed)

\* a sale consumed the first lot and part of the second, and a lot was
\* added since: the part-disposed lot is first, an untouched lot follows,
\* two entries in the history
C29_Witness ==
  /\ Len(queue.lots) >= 2
  /\ C29_Partial = { 1 }
  /\ RLt(Zero, Qty(queue, queue.lots[1]))
  /\ Len(queue.disposed_lots) >= 2
  /\ Len(queue.lot) = MaxLots

\* a lot of quantity zero was in the queue when a sale was made: no entry
\* of quantity zero
C29_WitnessZeroLot ==
  /\ qlast.op = "dispose_fifo"
  /\ \E k \in 1..Len(qlast.pre.lots) :
       qlast.pre.lot[qlast.pre.lots[k]].acquisition_quantity = Zero
  /\ Len(queue.disposed_lots) > Len(qlast.pre.disposed_lots)


\* ---- C30 ---------------------------------------------------------------
\* the rates stored for a currency, by date
C30_Stored(currency) == Get(fx_converter.rates, upper(currency), EmptyMap)
\* the lookup without a cache: the rate of the date itself, else, with the
\* fallback, the rate of the nearest of the 7 days before, else None
C30_Uncached(currency, rate_date, fallback_to_previous) ==
  LET stored == C30_Stored(currency)
      earlier == { d \in (rate_date - 7)..(rate_date - 1) : Has(stored, d) }
  IN  IF Has(stored, rate_date) THEN At(stored, rate_date)
      ELSE IF fallback_to_previous /\ earlier # {}
      THEN At(stored, CHOOSE d \in earlier : \A e \in earlier : e <= d)
      ELSE None
C30_Looked ==
  /\ fx_ret # NoCall
  /\ fx_ret.op = "get_rate"
  /\ fx_ret.currency \notin { "USD", "usd" }

\* C30 as stated: after any interleaving of set_rate and get_rate calls,
\* get_rate returns what the lookup without a cache returns over the
\* stored rates; a call with fallback_to_previous=False never returns a
\* rate of an earlier date.
C30_AsStated ==
  C30_Looked =>
    fx_ret.ret = C30_Uncached(fx_ret.currency, fx_ret.rate_date,
                              fx_ret.fallback_to_previous)

\* what the code does: a call with the fallback returns the uncached
\* lookup; a call without it returns either that or, when an earlier call
\* with the fallback cached it, the rate of the earlier date; the base
\* currency is always 1
C30_FallbackLeaksThroughCache ==
  /\ C30_Looked =>
       \/ fx_ret.ret = C30_Uncached(fx_ret.currency, fx_ret.rate_date,
                                    fx_ret.fallback_to_previous)
       \/ /\ ~fx_ret.fallback_to_previous
          /\ fx_ret.ret = C30_Uncached(fx_ret.currency, fx_ret.rate_date, TRUE)
          /\ Has(fx_converter.rate_cache, << upper(fx_ret.currency), fx_ret.rate_date >>)
  /\ (fx_ret # NoCall /\ fx_ret.op = "get_rate" /\ fx_ret.currency = "USD") =>
       fx_ret.ret = One
  /\ \A i \in 1..Len(fx_converter.rate_cache) :
       fx_converter.rate_cache[i].val
         = C30_Uncached(fx_converter.rate_cache[i].key[1],
                        fx_converter.rate_cache[i].key[2], TRUE)

\* a rate is stored for day 1 only; get_rate for day 2 without the fallback
\* returns the rate of day 1
C30_Witness ==
  /\ C30_Looked
  /\ fx_ret.currency = "EUR"
  /\ fx_ret.rate_date = 2
  /\ ~fx_ret.fallback_to_previous
  /\ Keys(C30_Stored("EUR")) = { 1 }
  /\ fx_ret.ret = At(C30_Stored("EUR"), 1)

\* the fallback reaches back 7 days and no further, in any case of the
\* currency code
C30_WitnessSevenDays ==
  /\ C30_Looked
  /\ fx_ret.currency = "eur"
  /\ fx_ret.rate_date = 8
  /\ fx_ret.fallback_to_previous
  /\ Keys(C30_Stored("EUR")) = { 1 }
  /\ fx_ret.ret = At(C30_Stored("EUR"), 1)
C30_WitnessEightDays ==
  /\ C30_Looked
  /\ fx_ret.rate_date = 9
  /\ fx_ret.fallback_to_previous
  /\ Keys(C30_Stored("EUR")) = { 1 }
  /\ fx_ret.ret = None

====
